---- MODULE Spec2Model ----
(***************************************************************************)
(* Document management system: the per-tenant concurrency counter          *)
(* (src/shared/concurrency.ts), the stage orchestrator                     *)
(* (src/workers/processing-orchestrator.ts) and the document lifecycle     *)
(* (delete, permanent delete, legal hold, retention sweep, hard delete,    *)
(* pipeline status updates).                                               *)
(***************************************************************************)
EXTENDS Integers, Sequences, FiniteSets, TLC

\* ------------------------------------------------------------------------
\* Program constants and model bounds
\* ------------------------------------------------------------------------

\* concurrency.ts:12
DEFAULT_CONCURRENCY_LIMIT == 10

\* largest explicit concurrencyLimit argument a caller passes
MaxLimitArg == 2

\* cap on processing_jobs.attempts (attempts = attempts + 1 is unbounded)
MaxAttempts == 1

Tenants == {"t1", "t2"}

\* concurrent invocations (Lambda instances) calling the counter
Callers == {"c1", "c2"}

\* concurrencyLimit?: number -- NoLimit is `undefined`
NoLimit == -1

LimitArgs == {NoLimit} \cup (0 .. MaxLimitArg)

\* ------------------------------------------------------------------------
\* State
\* ------------------------------------------------------------------------

VARIABLES
    table,      \* DynamoDB table dms-tenant-concurrency: tenant -> item
    pc,         \* caller -> where the invocation is between awaits
    ret,        \* what the most recent call returned or threw
    jobs,       \* processing_jobs rows: job -> [status, attempts]
    accepted,   \* jobs that got ACCEPTED and whose stage has not completed
    done,       \* jobs for which a complete message has been delivered
    wrap,       \* caller -> its executeWithConcurrencyEnforcement invocation
    guard,      \* derived objects of one version and the last two stage calls
    retry,      \* one retryWithExponentialBackoff invocation
    routing,    \* task metadata and the routing decision made for it
    timed,      \* one executeWithTimeout invocation
    pipe,       \* one execution of the document-processing state machine
    backlog,    \* older DELETING documents whose purge keeps failing
    docs,       \* documents rows: document -> row
    now,        \* NOW(), in days
    s3,         \* keys in the bucket, as <<document, prefix>>
    versionRows,\* documents that have document_versions rows
    jobRows,    \* documents that have processing_jobs rows
    queue,      \* hard-delete queue: document -> visible messages {documentId, tenantId}
    softReq,    \* delete-document request between its SELECT and its UPDATE
    permReq,    \* permanent-delete request between its SELECT and its UPDATE
    sweep,      \* retention run: where it is, what is left, what it did
    worker,     \* hard-delete worker invocation
    exec,       \* document -> where its pipeline execution is
    resp,       \* the most recent API response
    audit       \* documents that have audit_logs rows

slotVars == <<table, pc, ret>>
utilVars == <<routing, timed, pipe, backlog>>
stageVars == <<jobs, accepted, done, wrap, guard, retry, routing, timed,
               pipe, backlog>>
lifeVars == <<docs, now, s3, versionRows, jobRows, queue, softReq, permReq,
              sweep, worker, exec, resp, audit>>

\* ------------------------------------------------------------------------
\* concurrency.ts
\* ------------------------------------------------------------------------

NoItem == [exists |-> FALSE, current_count |-> 0, concurrency_limit |-> 0]

Item(count, limit) ==
    [exists |-> TRUE, current_count |-> count, concurrency_limit |-> limit]

Max(a, b) == IF a >= b THEN a ELSE b

\* ConcurrencyStatus {currentCount, limit, available}
ConcurrencyStatus(count, limit) ==
    [currentCount |-> count, limit |-> limit, available |-> Max(0, limit - count)]

\* getCurrentConcurrency: GetItem, a missing attribute reads as 0 / the default
getCurrentConcurrency(item) ==
    ConcurrencyStatus(IF item.exists THEN item.current_count ELSE 0,
                      IF item.exists THEN item.concurrency_limit
                                     ELSE DEFAULT_CONCURRENCY_LIMIT)

\* const limit = concurrencyLimit || DEFAULT_CONCURRENCY_LIMIT
\* (undefined and 0 are both falsy)
EffectiveLimit(limitArg) ==
    IF limitArg = NoLimit \/ limitArg = 0 THEN DEFAULT_CONCURRENCY_LIMIT
                                          ELSE limitArg

\* ConditionExpression of the increment:
\*   attribute_not_exists(current_count) OR current_count < concurrency_limit
IncrementConditionOffByOne(item) ==
    \/ ~item.exists
    \/ item.current_count <= item.concurrency_limit

IncrementCondition(item) ==
    \/ ~item.exists
    \/ item.current_count < item.concurrency_limit

\* UpdateExpression of the increment:
\*   current_count = if_not_exists(current_count, 0) + 1,
\*   concurrency_limit = if_not_exists(concurrency_limit, :limit)
IncrementUpdateOverwritesLimit(item, limitArg) ==
    Item((IF item.exists THEN item.current_count ELSE 0) + 1,
         EffectiveLimit(limitArg))

IncrementUpdate(item, limitArg) ==
    Item((IF item.exists THEN item.current_count ELSE 0) + 1,
         IF item.exists THEN item.concurrency_limit ELSE EffectiveLimit(limitArg))

\* ConditionExpression of the decrement: current_count > 0
\* (false when the attribute is missing)
DecrementConditionNoFloor(item) == item.exists

DecrementCondition(item) == item.exists /\ item.current_count > 0

\* UpdateExpression of the decrement: current_count = current_count - 1
DecrementUpdate(item) ==
    Item(item.current_count - 1, item.concurrency_limit)

\* the status decrementConcurrency returns when the condition check fails
DecrementAtZeroStatus ==
    [currentCount |-> 0, limit |-> DEFAULT_CONCURRENCY_LIMIT,
     available |-> DEFAULT_CONCURRENCY_LIMIT]

NoRet ==
    [op |-> "none", kind |-> "none", tenant |-> "t1", job |-> "none",
     limitArg |-> NoLimit, currentCount |-> 0, limit |-> 0, available |-> 0]

Ret(op, kind, t, limitArg, st) ==
    [op |-> op, kind |-> kind, tenant |-> t, job |-> "none",
     limitArg |-> limitArg, currentCount |-> st.currentCount,
     limit |-> st.limit, available |-> st.available]

Idle == [at |-> "idle", tenant |-> "t1", limitArg |-> NoLimit, job |-> "none"]

\* the table after a denied conditional update (nothing is written)
DeniedWriteResets(t) == table' = [table EXCEPT ![t] = NoItem]

DeniedWrite(t) == table' = table

\* incrementConcurrency, first await: the conditional UpdateItem.
\* On success the call returns the ALL_NEW attributes; on
\* ConditionalCheckFailedException the caller goes on to GetItem.
incrementConcurrency(c, t, limitArg) ==
    /\ pc[c].at = "idle"
    /\ IF IncrementCondition(table[t])
       THEN /\ table' = [table EXCEPT ![t] = IncrementUpdate(table[t], limitArg)]
            /\ ret' = Ret("acquire", "status", t, limitArg,
                          ConcurrencyStatus(table'[t].current_count,
                                            table'[t].concurrency_limit))
            /\ pc' = pc
       ELSE /\ DeniedWrite(t)
            /\ ret' = ret
            /\ pc' = [pc EXCEPT ![c] =
                        [at |-> "denied", tenant |-> t, limitArg |-> limitArg,
                         job |-> "none"]]

\* incrementConcurrency, catch branch: getCurrentConcurrency, then throw
\* ConcurrencyLimitExceededError(tenantId, status.currentCount, status.limit)
incrementConcurrencyDenied(c) ==
    /\ pc[c].at = "denied"
    /\ pc[c].job = "none"
    /\ ret' = Ret("acquire", "denied", pc[c].tenant, pc[c].limitArg,
                  getCurrentConcurrency(table[pc[c].tenant]))
    /\ table' = table
    /\ pc' = [pc EXCEPT ![c] = Idle]

\* decrementConcurrency: conditional UpdateItem; a failed condition is
\* swallowed and a fixed status is returned
decrementConcurrency(c, t) ==
    /\ pc[c].at = "idle"
    /\ IF DecrementCondition(table[t])
       THEN /\ table' = [table EXCEPT ![t] = DecrementUpdate(table[t])]
            /\ ret' = Ret("release", "status", t, NoLimit,
                          ConcurrencyStatus(table'[t].current_count,
                                            table'[t].concurrency_limit))
       ELSE /\ table' = table
            /\ ret' = Ret("release", "status", t, NoLimit, DecrementAtZeroStatus)
    /\ pc' = pc

\* acquireConcurrencySlot / releaseConcurrencySlot called directly
acquireConcurrencySlot ==
    \E c \in Callers, t \in Tenants, limitArg \in LimitArgs :
        /\ incrementConcurrency(c, t, limitArg)
        /\ UNCHANGED <<stageVars, lifeVars>>

acquireDenied ==
    \E c \in Callers :
        /\ incrementConcurrencyDenied(c)
        /\ UNCHANGED <<stageVars, lifeVars>>

releaseConcurrencySlot ==
    \E c \in Callers, t \in Tenants :
        /\ decrementConcurrency(c, t)
        /\ UNCHANGED <<stageVars, lifeVars>>

vars == <<table, pc, ret, jobs, accepted, done, wrap, guard, retry, routing,
          timed, pipe, backlog, docs, now, s3, versionRows,
          jobRows, queue, softReq, permReq, sweep, worker, exec, resp, audit>>

\* ------------------------------------------------------------------------
\* processing-orchestrator.ts: enforceAndStartProcessing, completeProcessing,
\* handleProcessingFailure
\* ------------------------------------------------------------------------

\* processing_jobs rows, one per (document, version, job type)
JobIds == {"j1", "j2"}

\* ProcessingRequest.tenantId of the job's document
TenantOf(j) == "t1"

JobRow(status, attempts, error, started) ==
    [status |-> status, attempts |-> attempts, error |-> error,
     started |-> started]

\* ProcessingRequest.concurrencyLimit: the tenant's configured limit
StageLimitArgs == 1 .. MaxLimitArg

\* what an orchestrator entry point returned or threw
StageRet(op, kind, j, st) ==
    [op |-> op, kind |-> kind, tenant |-> TenantOf(j), job |-> j,
     limitArg |-> NoLimit, currentCount |-> st.currentCount,
     limit |-> st.limit, available |-> st.available]

\* Promise<void>: completeProcessing and handleProcessingFailure return nothing
Void == [currentCount |-> 0, limit |-> 0, available |-> 0]

\* UPDATE processing_jobs SET status = 'RUNNING', started_at = NOW()
JobRunning(row) == JobRow("RUNNING", row.attempts, row.error, TRUE)

\* UPDATE processing_jobs SET status = 'PENDING', attempts = attempts + 1
JobQueuedKeepsAttempts(row) ==
    JobRow("PENDING", row.attempts, row.error, row.started)

JobQueued(row) == JobRow("PENDING", row.attempts + 1, row.error, row.started)

\* UPDATE processing_jobs SET status = $1, completed_at = NOW()
JobCompleted(row, success) ==
    JobRow(IF success THEN "COMPLETED" ELSE "FAILED", row.attempts, row.error,
           row.started)

\* UPDATE processing_jobs SET status = 'FAILED', error_message = $1, ...
JobFailed(row) == JobRow("FAILED", row.attempts, TRUE, row.started)

\* releaseConcurrencySlot as called by the orchestrator: the table after it
ReleasedNever(t) == table

Released(t) ==
    IF DecrementCondition(table[t])
    THEN [table EXCEPT ![t] = DecrementUpdate(table[t])]
    ELSE table

\* enforceAndStartProcessing up to the outcome of acquireConcurrencySlot:
\* on success the job row is set RUNNING and ACCEPTED is returned (dbOk =
\* FALSE: the job update throws and the error propagates); on a failed
\* condition the invocation goes on to the catch branch.
enforceAndStartProcessing ==
    \E c \in Callers, j \in JobIds, limitArg \in StageLimitArgs, dbOk \in BOOLEAN :
        /\ pc[c].at = "idle"
        /\ IF IncrementCondition(table[TenantOf(j)])
           THEN /\ table' = [table EXCEPT ![TenantOf(j)] =
                                IncrementUpdate(table[TenantOf(j)], limitArg)]
                /\ jobs' = IF dbOk THEN [jobs EXCEPT ![j] = JobRunning(jobs[j])]
                                   ELSE jobs
                /\ accepted' = IF dbOk THEN accepted \cup {j} ELSE accepted
                /\ ret' = StageRet("runStage",
                                   IF dbOk THEN "ACCEPTED" ELSE "error", j,
                                   ConcurrencyStatus(
                                       table'[TenantOf(j)].current_count,
                                       table'[TenantOf(j)].concurrency_limit))
                /\ pc' = pc
           ELSE /\ jobs[j].attempts < MaxAttempts
                /\ DeniedWrite(TenantOf(j))
                /\ pc' = [pc EXCEPT ![c] =
                            [at |-> "denied", tenant |-> TenantOf(j),
                             limitArg |-> NoLimit, job |-> j]]
                /\ UNCHANGED <<ret, jobs, accepted>>
        /\ done' = done
        /\ UNCHANGED <<wrap, guard, retry, utilVars, lifeVars>>

\* enforceAndStartProcessing, catch ConcurrencyLimitExceededError: the error
\* was built from getCurrentConcurrency; the job is set PENDING with
\* attempts + 1 and QUEUED is returned with the limit in the reason
enforceQueued ==
    \E c \in Callers, dbOk \in BOOLEAN :
        /\ pc[c].at = "denied"
        /\ pc[c].job # "none"
        /\ jobs' = IF dbOk
                   THEN [jobs EXCEPT ![pc[c].job] = JobQueued(jobs[pc[c].job])]
                   ELSE jobs
        /\ ret' = StageRet("runStage", IF dbOk THEN "QUEUED" ELSE "error",
                           pc[c].job,
                           getCurrentConcurrency(table[pc[c].tenant]))
        /\ pc' = [pc EXCEPT ![c] = Idle]
        /\ UNCHANGED <<table, accepted, done, wrap, guard, retry, utilVars>>
        /\ UNCHANGED lifeVars

\* completeProcessing(documentId, versionId, tenantId, jobType, success),
\* called back by the stage's worker after ACCEPTED, or redelivered
completeProcessing ==
    \E c \in Callers, j \in accepted \cup done, success \in BOOLEAN,
       dbOk \in BOOLEAN :
        /\ pc[c].at = "idle"
        /\ table' = Released(TenantOf(j))
        /\ jobs' = IF dbOk THEN [jobs EXCEPT ![j] = JobCompleted(jobs[j], success)]
                           ELSE jobs
        /\ accepted' = accepted \ {j}
        /\ done' = done \cup {j}
        /\ ret' = StageRet("complete", IF dbOk THEN "ok" ELSE "error", j, Void)
        /\ pc' = pc
        /\ UNCHANGED <<wrap, guard, retry, utilVars, lifeVars>>

\* handleProcessingFailure(documentId, versionId, tenantId, jobType, error)
handleProcessingFailure ==
    \E c \in Callers, j \in accepted \cup done, dbOk \in BOOLEAN :
        /\ pc[c].at = "idle"
        /\ table' = Released(TenantOf(j))
        /\ jobs' = IF dbOk THEN [jobs EXCEPT ![j] = JobFailed(jobs[j])] ELSE jobs
        /\ accepted' = accepted \ {j}
        /\ done' = done \cup {j}
        /\ ret' = StageRet("fail", IF dbOk THEN "ok" ELSE "error", j, Void)
        /\ pc' = pc
        /\ UNCHANGED <<wrap, guard, retry, utilVars, lifeVars>>

\* executeWithConcurrencyEnforcement(wrapper, operation): one invocation per
\* caller; acquired = acquireConcurrencySlot returned normally, released =
\* the calls of releaseConcurrencySlot that returned normally
WrapIdle == [at |-> "idle", job |-> "none", acquired |-> FALSE, released |-> 0]

WrapAt(at, j, acquired, released) ==
    [at |-> at, job |-> j, acquired |-> acquired, released |-> released]

WrapExited(w) == w.at \in {"returned", "threw"}

\* await this.enforceAndStartProcessing(wrapper), outside the try block: a
\* QUEUED response is turned into a ConcurrencyLimitExceededError, an error of
\* the job update leaves the wrapper with the slot taken
executeEnforce ==
    \E c \in Callers, j \in JobIds, limitArg \in StageLimitArgs, dbOk \in BOOLEAN :
        /\ wrap[c].at = "idle" \/ WrapExited(wrap[c])
        /\ IF IncrementCondition(table[TenantOf(j)])
           THEN /\ table' = [table EXCEPT ![TenantOf(j)] =
                                IncrementUpdate(table[TenantOf(j)], limitArg)]
                /\ jobs' = IF dbOk THEN [jobs EXCEPT ![j] = JobRunning(jobs[j])]
                                   ELSE jobs
                /\ wrap' = [wrap EXCEPT ![c] =
                              WrapAt(IF dbOk THEN "operation" ELSE "threw",
                                     j, TRUE, 0)]
           ELSE /\ jobs[j].attempts < MaxAttempts
                /\ DeniedWrite(TenantOf(j))
                /\ jobs' = IF dbOk THEN [jobs EXCEPT ![j] = JobQueued(jobs[j])]
                                   ELSE jobs
                /\ wrap' = [wrap EXCEPT ![c] = WrapAt("threw", j, FALSE, 0)]
        /\ UNCHANGED <<pc, ret, accepted, done, guard, retry, utilVars, lifeVars>>

\* result = await operation(): returns, or throws into the catch block
executeOperation ==
    \E c \in Callers, opOk \in BOOLEAN :
        /\ wrap[c].at = "operation"
        /\ wrap' = [wrap EXCEPT ![c].at = IF opOk THEN "complete" ELSE "failure"]
        /\ UNCHANGED <<slotVars, jobs, accepted, done, guard, retry, utilVars, lifeVars>>

\* await this.completeProcessing(..., true), inside the try block: the slot
\* is released first, then the job row is updated; either await may throw
\* (relOk, dbOk) and the catch block then runs handleProcessingFailure
executeComplete ==
    \E c \in Callers, relOk \in BOOLEAN, dbOk \in BOOLEAN :
        /\ wrap[c].at = "complete"
        /\ table' = IF relOk THEN Released(TenantOf(wrap[c].job)) ELSE table
        /\ jobs' = IF relOk /\ dbOk
                   THEN [jobs EXCEPT ![wrap[c].job] =
                            JobCompleted(jobs[wrap[c].job], TRUE)]
                   ELSE jobs
        /\ wrap' = [wrap EXCEPT ![c] =
                      WrapAt(IF relOk /\ dbOk THEN "returned" ELSE "failure",
                             wrap[c].job, wrap[c].acquired,
                             wrap[c].released + (IF relOk THEN 1 ELSE 0))]
        /\ UNCHANGED <<pc, ret, accepted, done, guard, retry, utilVars, lifeVars>>

\* catch (error): await this.handleProcessingFailure(...); throw error
executeFailure ==
    \E c \in Callers, relOk \in BOOLEAN, dbOk \in BOOLEAN :
        /\ wrap[c].at = "failure"
        /\ table' = IF relOk THEN Released(TenantOf(wrap[c].job)) ELSE table
        /\ jobs' = IF relOk /\ dbOk
                   THEN [jobs EXCEPT ![wrap[c].job] = JobFailed(jobs[wrap[c].job])]
                   ELSE jobs
        /\ wrap' = [wrap EXCEPT ![c] =
                      WrapAt("threw", wrap[c].job, wrap[c].acquired,
                             wrap[c].released + (IF relOk THEN 1 ELSE 0))]
        /\ UNCHANGED <<pc, ret, accepted, done, guard, retry, utilVars, lifeVars>>

\* ------------------------------------------------------------------------
\* Stage workers and their existence checks (shared/idempotency)
\* ------------------------------------------------------------------------

\* ThumbnailEvent.sizes: the requested edge lengths, in list order
ThumbSizes == {100, 200}

MaxSizes == 2

SizeLists == UNION {[1 .. n -> ThumbSizes] : n \in 0 .. MaxSizes}

\* getPageCount() of the version's PDF
MaxPages == 2

Range(f) == {f[i] : i \in DOMAIN f}

\* `${tenantId}/derived/${documentId}/${versionId}/thumbnails/${size}x${size}.jpg`
ThumbKey(size) == <<"thumbnails", size>>

\* `.../split/page-${String(pageNumber).padStart(3, '0')}.pdf`
PageKey(pageNumber) == <<"split", pageNumber>>

\* `.../ocr/text.json`
OcrKey == <<"ocr", 0>>

\* HeadObject: true, or false on NotFound
checkS3ObjectExistsNever(objects, key) == FALSE

checkS3ObjectExists(objects, key) == key \in objects

checkArtifactsExist(objects, keys) ==
    LET existingKeys == SelectSeq(keys, LAMBDA k : checkS3ObjectExists(objects, k))
    IN  [allExist |-> Len(existingKeys) = Len(keys),
         existingKeys |-> existingKeys]

\* one handler invocation: the objects it found, what it generated, what it
\* PUT, and the keys of its result when it returned
NoCall ==
    [stage |-> "none", input |-> <<>>, outcome |-> "none", before |-> {},
     keys |-> <<>>, generated |-> {}, uploaded |-> {}]

Call(stage, input, outcome, keys, generated, uploaded) ==
    [stage |-> stage, input |-> input, outcome |-> outcome,
     before |-> guard.objects, keys |-> keys, generated |-> generated,
     uploaded |-> uploaded]

NoGuard == [objects |-> {}, pageCount |-> 0, prev |-> NoCall, last |-> NoCall]

Invoked(call) ==
    guard' = [guard EXCEPT !.objects = guard.objects \cup call.uploaded,
                           !.prev = guard.last,
                           !.last = call]

expectedThumbnailKeys(sizes) == [i \in 1 .. Len(sizes) |-> ThumbKey(sizes[i])]

\* generate-thumbnail handler; failAt = 0: no await throws, failAt = i: the
\* upload of the i-th size throws
generateThumbnailHandler ==
    \E sizes \in SizeLists, failAt \in 0 .. MaxSizes :
        LET expected == expectedThumbnailKeys(sizes)
            check == checkArtifactsExist(guard.objects, expected)
            todo == {i \in 1 .. Len(sizes) :
                        expected[i] \notin Range(check.existingKeys)}
            reached == {i \in todo : failAt = 0 \/ i <= failAt}
            put == {i \in todo : failAt = 0 \/ i < failAt}
        IN  /\ failAt = 0 \/ (~check.allExist /\ failAt \in todo)
            /\ IF check.allExist
               THEN Invoked(Call("thumbnails", sizes, "returned", expected, {}, {}))
               ELSE Invoked(Call("thumbnails", sizes,
                                 IF failAt = 0 THEN "returned" ELSE "threw",
                                 IF failAt = 0 THEN expected ELSE <<>>,
                                 {expected[i] : i \in reached},
                                 {expected[i] : i \in put}))
            /\ UNCHANGED <<slotVars, jobs, accepted, done, wrap, retry, utilVars, lifeVars>>

pageKeys(pageCount) == [i \in 1 .. pageCount |-> PageKey(i)]

\* split-pdf handler; failAt = i: the upload of page i throws
splitPdfHandler ==
    \E failAt \in 0 .. MaxPages :
        LET firstPageExists == checkS3ObjectExists(guard.objects, PageKey(1))
            pages == pageKeys(guard.pageCount)
        IN  /\ failAt = 0 \/ (~firstPageExists /\ failAt <= guard.pageCount)
            /\ IF firstPageExists
               THEN Invoked(Call("split", <<>>, "returned", pages, {}, {}))
               ELSE Invoked(Call("split", <<>>,
                                 IF failAt = 0 THEN "returned" ELSE "threw",
                                 IF failAt = 0 THEN pages ELSE <<>>,
                                 Range(pages),
                                 {pages[i] : i \in
                                    {k \in 1 .. guard.pageCount :
                                        failAt = 0 \/ k < failAt}}))
            /\ UNCHANGED <<slotVars, jobs, accepted, done, wrap, retry, utilVars, lifeVars>>

\* get-textract-results handler; textractOk: the job SUCCEEDED with results,
\* putOk: the PutObject went through
getTextractResultsHandler ==
    \E textractOk \in BOOLEAN, putOk \in BOOLEAN :
        LET ocrExists == checkS3ObjectExists(guard.objects, OcrKey)
        IN  /\ ocrExists => (textractOk /\ putOk)
            /\ ~textractOk => putOk
            /\ IF ocrExists
               THEN Invoked(Call("ocr", <<>>, "returned", <<OcrKey>>, {}, {}))
               ELSE IF ~textractOk
               THEN Invoked(Call("ocr", <<>>, "threw", <<>>, {}, {}))
               ELSE Invoked(Call("ocr", <<>>,
                                 IF putOk THEN "returned" ELSE "threw",
                                 IF putOk THEN <<OcrKey>> ELSE <<>>,
                                 {OcrKey},
                                 IF putOk THEN {OcrKey} ELSE {}))
            /\ UNCHANGED <<slotVars, jobs, accepted, done, wrap, retry, utilVars, lifeVars>>

\* ------------------------------------------------------------------------
\* Retry with exponential backoff (shared/retry)
\* ------------------------------------------------------------------------

\* largest RetryConfig.maxAttempts a caller passes
MaxTries == 6

\* DEFAULT_RETRY_CONFIG; a string is the sequence of its words
DEFAULT_RETRY_CONFIG ==
    [maxAttempts |-> 5,
     baseDelayMs |-> 1000,
     maxDelayMs |-> 16000,
     retryableErrors |->
        {"NetworkError", "TimeoutError", "ServiceUnavailable",
         "ThrottlingException", "TooManyRequestsException",
         "InternalServerError"}]

\* { ...DEFAULT_RETRY_CONFIG, ...config }: the configurations callers pass
RetryConfigs ==
    {[DEFAULT_RETRY_CONFIG EXCEPT !.maxAttempts = n, !.baseDelayMs = b,
                                  !.maxDelayMs = m] :
        n \in 0 .. MaxTries, b \in {500, 1000}, m \in {0, 4000, 16000}}

Min(a, b) == IF a <= b THEN a ELSE b

\* calculateExponentialBackoff: `if (maxDelayMs)` is false for 0
calculateExponentialBackoffNoCap(attempt, baseDelayMs, maxDelayMs) ==
    baseDelayMs * 2 ^ (attempt - 1)

calculateExponentialBackoff(attempt, baseDelayMs, maxDelayMs) ==
    LET delay == baseDelayMs * 2 ^ (attempt - 1)
    IN  IF maxDelayMs # 0 THEN Min(delay, maxDelayMs) ELSE delay

\* String.prototype.includes on a string made of words
Includes(text, word) == \E i \in DOMAIN text : text[i] = word

\* the errors operations throw: error.name, error.message
OperationErrors ==
    {[name |-> <<"TimeoutError">>, message |-> <<"timed", "out">>],
     [name |-> <<"Error">>, message |-> <<"Rate", "exceeded", "ThrottlingException">>],
     [name |-> <<"ValidationError">>, message |-> <<"bad", "input">>]}

isRetryableError(error, retryableErrors) ==
    \E errorType \in retryableErrors :
        Includes(error.name, errorType) \/ Includes(error.message, errorType)

\* new Error('Retry failed with unknown error')
UnknownError ==
    [name |-> <<"Error">>,
     message |-> <<"Retry", "failed", "with", "unknown", "error">>]

NoError == [name |-> <<>>, message |-> <<>>]

\* if (isLastAttempt || !isRetryable) throw lastError
ShouldThrowLastOnly(isLastAttempt, isRetryable) == isLastAttempt

ShouldThrow(isLastAttempt, isRetryable) == isLastAttempt \/ ~isRetryable

\* not invoked; and the state at the first iteration of the loop
NoRetry ==
    [config |-> DEFAULT_RETRY_CONFIG, at |-> "none", attempt |-> 0,
     invocations |-> 0, waits |-> <<>>, lastError |-> NoError,
     allRetryable |-> TRUE, thrown |-> NoError]

RetryStart(config) ==
    [NoRetry EXCEPT !.config = config, !.at = "loop", !.attempt = 1]

\* one iteration: await operation() returns, or throws error
retryAttempt ==
    \E outcome \in {NoError} \cup OperationErrors :
        /\ retry.at = "loop"
        /\ retry.attempt <= retry.config.maxAttempts
        /\ IF outcome = NoError
           THEN retry' = [retry EXCEPT !.at = "returned",
                                       !.invocations = retry.invocations + 1]
           ELSE LET isRetryable ==
                        isRetryableError(outcome, retry.config.retryableErrors)
                    isLastAttempt == retry.attempt = retry.config.maxAttempts
                    failed == [retry EXCEPT
                                 !.invocations = retry.invocations + 1,
                                 !.lastError = outcome,
                                 !.allRetryable = retry.allRetryable /\ isRetryable]
                IN  IF ShouldThrow(isLastAttempt, isRetryable)
                    THEN retry' = [failed EXCEPT !.at = "threw",
                                                 !.thrown = outcome]
                    ELSE retry' = [failed EXCEPT
                                     !.at = "sleep",
                                     !.waits = Append(retry.waits,
                                         calculateExponentialBackoff(
                                             retry.attempt,
                                             retry.config.baseDelayMs,
                                             retry.config.maxDelayMs))]
        /\ UNCHANGED <<slotVars, jobs, accepted, done, wrap, guard, utilVars, lifeVars>>

\* await sleep(delayMs) is over: attempt++
retrySleep ==
    /\ retry.at = "sleep"
    /\ retry' = [retry EXCEPT !.at = "loop", !.attempt = retry.attempt + 1]
    /\ UNCHANGED <<slotVars, jobs, accepted, done, wrap, guard, utilVars, lifeVars>>

\* the loop condition fails without an iteration having thrown:
\* throw lastError || new Error('Retry failed with unknown error')
retryLoopEnds ==
    /\ retry.at = "loop"
    /\ retry.attempt > retry.config.maxAttempts
    /\ retry' = [retry EXCEPT !.at = "threw", !.thrown = UnknownError]
    /\ UNCHANGED <<slotVars, jobs, accepted, done, wrap, guard, utilVars, lifeVars>>

\* ------------------------------------------------------------------------
\* Task routing and timeout enforcement (shared/task-routing, shared/timeout)
\* ------------------------------------------------------------------------

LAMBDA_TIMEOUT_MS == 15 * 60 * 1000

FARGATE_TIMEOUT_MS == 60 * 60 * 1000

MB == 1024 * 1024

LARGE_FILE_THRESHOLD_BYTES == 50 * MB

LARGE_PAGE_COUNT_THRESHOLD == 100

\* JobType
JobTypes == {"OCR", "THUMBNAIL", "PDF_SPLIT", "MALWARE_SCAN"}

\* TaskMetadata.fileSizeBytes (absent = 0) and TaskMetadata.pageCount
FileSizes == {0, MB, 50 * MB, 50 * MB + 1, 300 * MB - 1, 300 * MB, 450 * MB}

PageCounts == {0, 1, 100, 101, 150, 180, 900}

Metadatas ==
    [jobType : JobTypes, fileSizeBytes : FileSizes, pageCount : PageCounts]

\* (fileSizeBytes / (1024 * 1024)) * msPerMB, in whole milliseconds (the
\* fraction of a millisecond decides no comparison against a whole number)
PerMB(fileSizeBytes, msPerMB) ==
    (fileSizeBytes \div MB) * msPerMB
        + ((fileSizeBytes % MB) * (msPerMB \div 8)) \div (MB \div 8)

\* Math.round(x / unit)
Round(x, unit) == (x + unit \div 2) \div unit

estimateTaskDuration(metadata) ==
    CASE metadata.jobType = "THUMBNAIL" ->
            Max(5000, PerMB(metadata.fileSizeBytes, 2000))
      [] metadata.jobType = "OCR" -> Max(10000, metadata.pageCount * 5000)
      [] metadata.jobType = "PDF_SPLIT" -> Max(5000, metadata.pageCount * 1000)
      [] metadata.jobType = "MALWARE_SCAN" ->
            Max(10000, PerMB(metadata.fileSizeBytes, 3000))
      [] OTHER -> 5 * 60 * 1000

\* fileSizeBytes > LARGE_FILE_THRESHOLD_BYTES
LargeFileInclusive(fileSizeBytes) == fileSizeBytes >= LARGE_FILE_THRESHOLD_BYTES

LargeFile(fileSizeBytes) == fileSizeBytes > LARGE_FILE_THRESHOLD_BYTES

\* the reason string: the rule that wrote it and the number it quotes
Reason(rule, text, value) == [rule |-> rule, text |-> text, value |-> value]

Decision(workerType, estimatedDurationMs, reason) ==
    [workerType |-> workerType, estimatedDurationMs |-> estimatedDurationMs,
     reason |-> reason]

routeTask(metadata) ==
    LET estimatedDurationMs == estimateTaskDuration(metadata)
        rule1 ==
            IF estimatedDurationMs < LAMBDA_TIMEOUT_MS
            THEN Decision("LAMBDA", estimatedDurationMs,
                          Reason(1, "is under Lambda timeout",
                                 Round(estimatedDurationMs, 1000)))
            ELSE Decision("FARGATE", estimatedDurationMs,
                          Reason(1, "exceeds Lambda timeout",
                                 Round(estimatedDurationMs, 1000)))
        rule2 ==
            IF LargeFile(metadata.fileSizeBytes)
            THEN Decision("FARGATE", estimatedDurationMs,
                          Reason(2, "Large file size",
                                 Round(metadata.fileSizeBytes, MB)))
            ELSE rule1
        rule3 ==
            IF metadata.pageCount > LARGE_PAGE_COUNT_THRESHOLD
            THEN Decision("FARGATE", estimatedDurationMs,
                          Reason(3, "Large page count", metadata.pageCount))
            ELSE rule2
    IN  IF metadata.jobType = "MALWARE_SCAN"
        THEN Decision("FARGATE", estimatedDurationMs,
                      Reason(4, "Malware scanning requires Fargate", 0))
        ELSE rule3

NoDecision == Decision("none", 0, Reason(0, "none", 0))

NoRouting ==
    [metadata |-> [jobType |-> "OCR", fileSizeBytes |-> 0, pageCount |-> 0],
     decision |-> NoDecision]

\* routeTask(metadata) is called for the task
routeTaskCall ==
    /\ routing.decision = NoDecision
    /\ routing' = [routing EXCEPT !.decision = routeTask(routing.metadata)]
    /\ UNCHANGED <<slotVars, jobs, accepted, done, wrap, guard, retry, timed,
                   pipe, backlog, lifeVars>>

getTimeoutForWorker(workerType) ==
    IF workerType = "LAMBDA" THEN LAMBDA_TIMEOUT_MS ELSE FARGATE_TIMEOUT_MS

\* executeWithTimeout: the promise, its timer, the operation and the cleanup
NoTimed ==
    [at |-> "none", timeoutMs |-> 0, hasCleanup |-> FALSE,
     operationCompleted |-> FALSE, timer |-> "none", operation |-> "none",
     cleanups |-> 0, won |-> "none", outcome |-> "none"]

\* executeTaskWithEnforcement(operation, workerType, taskId, onTimeout?):
\* setTimeout is armed and operation() is started
executeTaskWithEnforcement ==
    \E hasCleanup \in BOOLEAN :
        /\ routing.decision # NoDecision
        /\ timed.at = "none"
        /\ timed' = [NoTimed EXCEPT
                        !.at = "pending",
                        !.timeoutMs = getTimeoutForWorker(routing.decision.workerType),
                        !.hasCleanup = hasCleanup,
                        !.timer = "armed",
                        !.operation = "running"]
        /\ UNCHANGED <<slotVars, jobs, accepted, done, wrap, guard, retry,
                       routing, pipe, backlog, lifeVars>>

\* what the promise is rejected with once `await onTimeout()` is over
AfterCleanupPropagates(cleanupOk) ==
    IF cleanupOk THEN "TimeoutError" ELSE "cleanup error"

AfterCleanup(cleanupOk) == "TimeoutError"

\* the setTimeout callback runs
timerFires ==
    /\ timed.timer = "armed"
    /\ IF timed.operationCompleted
       THEN timed' = [timed EXCEPT !.timer = "fired"]
       ELSE IF timed.hasCleanup
       THEN timed' = [timed EXCEPT !.timer = "fired",
                                   !.operationCompleted = TRUE,
                                   !.won = "timer",
                                   !.at = "cleanup",
                                   !.cleanups = timed.cleanups + 1]
       ELSE timed' = [timed EXCEPT !.timer = "fired",
                                   !.operationCompleted = TRUE,
                                   !.won = "timer",
                                   !.at = "settled",
                                   !.outcome = "TimeoutError"]
    /\ UNCHANGED <<slotVars, jobs, accepted, done, wrap, guard, retry, routing,
                   pipe, backlog, lifeVars>>

\* await onTimeout() returns or throws (caught and logged); then reject
cleanupSettles ==
    \E cleanupOk \in BOOLEAN :
        /\ timed.at = "cleanup"
        /\ timed' = [timed EXCEPT !.at = "settled",
                                  !.outcome = AfterCleanup(cleanupOk)]
        /\ UNCHANGED <<slotVars, jobs, accepted, done, wrap, guard, retry,
                       routing, pipe, backlog, lifeVars>>

\* await operation() returns or throws
operationSettles ==
    \E ok \in BOOLEAN :
        /\ timed.operation = "running"
        /\ IF ~timed.operationCompleted
           THEN timed' = [timed EXCEPT
                            !.operation = IF ok THEN "result" ELSE "error",
                            !.operationCompleted = TRUE,
                            !.timer = "cleared",
                            !.won = "operation",
                            !.at = "settled",
                            !.outcome = IF ok THEN "result" ELSE "error"]
           ELSE timed' = [timed EXCEPT
                            !.operation = IF ok THEN "result" ELSE "error"]
        /\ UNCHANGED <<slotVars, jobs, accepted, done, wrap, guard, retry,
                       routing, pipe, backlog, lifeVars>>

\* ------------------------------------------------------------------------
\* The document-processing state machine (step-functions/main.tf)
\* ------------------------------------------------------------------------
\* The execution input and the loaded rules are taken to be present in the
\* input of every state that names them in its Parameters or Choices.

\* IndexSearch.Retry[0].MaxAttempts
IndexMaxAttempts == 3

Branches == {"MalwareScan", "OCR", "Thumbnail", "PDFSplit"}

\* processing_rules.rules: each key is absent or has a value
RuleObjects ==
    [ocr : {"absent", "true", "false"},
     thumbnail : {"absent", "present"},
     pdfSplit : {"absent", "true", "false"}]

\* load-rules without a matching row: { malwareScan: true }
DefaultRules == [ocr |-> "absent", thumbnail |-> "absent", pdfSplit |-> "absent"]

\* StartExecution input (upload-complete), and the output of a Catch
ExecutionInput == {"documentId", "versionId", "tenantId", "s3Key", "s3Bucket"}

CatchOutput == {"Error", "Cause"}

\* MarkFailed.Parameters: "documentId.$" = "$.documentId", "error.$" = "$.error"
MarkFailedParameters == {"documentId", "error"}

\* a Parameters field ending in .$ whose path is not in the input fails the
\* state (States.ParameterPathFailure)
ParametersResolve(parameters, input) == parameters \subseteq input

\* Choice rule { Variable, BooleanEquals = true }: a Variable that is not in
\* the input fails the execution (States.Runtime, not caught by States.ALL)
BooleanEqualsTrue(value) ==
    CASE value = "absent" -> "States.Runtime"
      [] value = "true" -> "match"
      [] OTHER -> "default"

\* Choice rule { Variable, IsPresent = true }
IsPresentTrue(value) == IF value = "absent" THEN "default" ELSE "match"

\* CheckOCR, CheckThumbnail, CheckPDFSplit; the MalwareScan branch has no Choice
BranchChoice(b, rules) ==
    CASE b = "OCR" -> BooleanEqualsTrue(rules.ocr)
      [] b = "Thumbnail" -> IsPresentTrue(rules.thumbnail)
      [] b = "PDFSplit" -> BooleanEqualsTrue(rules.pdfSplit)
      [] OTHER -> "match"

NoPipe ==
    [at |-> "idle", rules |-> DefaultRules, matched |-> FALSE,
     isLatest |-> FALSE, status |-> "UPLOADED",
     branch |-> [b \in Branches |-> "pending"], artifacts |-> {},
     indexTries |-> 0, indexed |-> FALSE, jobsError |-> FALSE,
     error |-> "none"]

\* LoadRules: the load-rules handler returns the newest matching rule, or
\* the default when none matches or the query throws
LoadRules ==
    \E found \in BOOLEAN, r \in RuleObjects :
        /\ pipe.at = "LoadRules"
        /\ pipe' = [pipe EXCEPT !.at = "CheckVersion",
                                !.rules = IF found THEN r ELSE DefaultRules,
                                !.matched = found]
        /\ UNCHANGED <<slotVars, jobs, accepted, done, wrap, guard, retry,
                       routing, timed, backlog, lifeVars>>

\* CheckVersion: the handler returns isLatest, or fails after its retries
CheckVersion ==
    \E ok \in BOOLEAN, isLatest \in BOOLEAN :
        /\ pipe.at = "CheckVersion"
        /\ pipe' = IF ok THEN [pipe EXCEPT !.at = "IsLatest",
                                           !.isLatest = isLatest]
                         ELSE [pipe EXCEPT !.at = "Failed",
                                           !.error = "CheckVersion"]
        /\ UNCHANGED <<slotVars, jobs, accepted, done, wrap, guard, retry,
                       routing, timed, backlog, lifeVars>>

\* IsLatest: Choice, Default = Superseded (Succeed)
IsLatest ==
    /\ pipe.at = "IsLatest"
    /\ pipe' = [pipe EXCEPT !.at = IF pipe.isLatest
                                   THEN "UpdateStatusProcessing"
                                   ELSE "Superseded"]
    /\ UNCHANGED <<slotVars, jobs, accepted, done, wrap, guard, retry,
                   routing, timed, backlog, lifeVars>>

\* UpdateStatusProcessing: update-status with status PROCESSING; no Retry and
\* no Catch, a failure of the handler fails the execution
UpdateStatusProcessing ==
    \E ok \in BOOLEAN :
        /\ pipe.at = "UpdateStatusProcessing"
        /\ pipe' = IF ok THEN [pipe EXCEPT !.at = "ParallelProcessing",
                                           !.status = "PROCESSING"]
                         ELSE [pipe EXCEPT !.at = "Failed",
                                           !.error = "UpdateStatusProcessing"]
        /\ UNCHANGED <<slotVars, jobs, accepted, done, wrap, guard, retry,
                       routing, timed, backlog, lifeVars>>

\* a failed branch fails the Parallel state, and its other branches are stopped
Stopped(branch, failed) ==
    [b \in Branches |->
        IF b = failed THEN "failed"
        ELSE IF branch[b] \in {"pending", "running"} THEN "aborted"
        ELSE branch[b]]

\* a branch enters its StartAt state: the Choice picks the task or the Skip
BranchStart ==
    \E b \in Branches :
        /\ pipe.at = "ParallelProcessing"
        /\ pipe.branch[b] = "pending"
        /\ LET choice == BranchChoice(b, pipe.rules)
           IN  pipe' =
                 CASE choice = "match" ->
                        [pipe EXCEPT !.branch[b] = "running"]
                   [] choice = "default" ->
                        [pipe EXCEPT !.branch[b] = "skipped"]
                   [] OTHER ->
                        [pipe EXCEPT !.branch = Stopped(pipe.branch, b),
                                     !.at = "Failed",
                                     !.error = "States.Runtime"]
        /\ UNCHANGED <<slotVars, jobs, accepted, done, wrap, guard, retry,
                       routing, timed, backlog, lifeVars>>

\* MalwareScan, RunOCR, GenerateThumbnail, SplitPDF return: End = true
BranchSucceeds ==
    \E b \in Branches :
        /\ pipe.at = "ParallelProcessing"
        /\ pipe.branch[b] = "running"
        /\ pipe' = [pipe EXCEPT !.branch[b] = "succeeded",
                                !.artifacts = pipe.artifacts \cup {b}]
        /\ UNCHANGED <<slotVars, jobs, accepted, done, wrap, guard, retry,
                       routing, timed, backlog, lifeVars>>

\* a branch task fails (no Retry): ParallelProcessing.Catch, Next = MarkFailed
BranchFails ==
    \E b \in Branches :
        /\ pipe.at = "ParallelProcessing"
        /\ pipe.branch[b] = "running"
        /\ pipe' = [pipe EXCEPT !.branch = Stopped(pipe.branch, b),
                                !.at = "MarkFailed",
                                !.error = "States.TaskFailed"]
        /\ UNCHANGED <<slotVars, jobs, accepted, done, wrap, guard, retry,
                       routing, timed, backlog, lifeVars>>

\* the Parallel state is over when every branch has reached its end
ParallelSucceededAny(branch) ==
    \E b \in Branches : branch[b] \in {"succeeded", "skipped"}

ParallelSucceeded(branch) ==
    \A b \in Branches : branch[b] \in {"succeeded", "skipped"}

\* ParallelProcessing.Next = IndexSearch
ParallelProcessing ==
    /\ pipe.at = "ParallelProcessing"
    /\ ParallelSucceeded(pipe.branch)
    /\ pipe' = [pipe EXCEPT !.at = "IndexSearch"]
    /\ UNCHANGED <<slotVars, jobs, accepted, done, wrap, guard, retry,
                   routing, timed, backlog, lifeVars>>

\* IndexSearch: the index-document handler returns or throws; Retry with
\* MaxAttempts = 3, no Catch
IndexSearch ==
    \E ok \in BOOLEAN :
        /\ pipe.at = "IndexSearch"
        /\ pipe' = IF ok
                   THEN [pipe EXCEPT !.at = "MarkReady", !.indexed = TRUE]
                   ELSE IF pipe.indexTries < IndexMaxAttempts
                   THEN [pipe EXCEPT !.indexTries = pipe.indexTries + 1]
                   ELSE [pipe EXCEPT !.at = "Failed", !.error = "IndexSearch"]
        /\ UNCHANGED <<slotVars, jobs, accepted, done, wrap, guard, retry,
                       routing, timed, backlog, lifeVars>>

\* MarkReady: update-status with status READY; End = true
MarkReady ==
    \E ok \in BOOLEAN :
        /\ pipe.at = "MarkReady"
        /\ pipe' = IF ok THEN [pipe EXCEPT !.at = "Succeeded",
                                           !.status = "READY"]
                         ELSE [pipe EXCEPT !.at = "Failed",
                                           !.error = "MarkReady"]
        /\ UNCHANGED <<slotVars, jobs, accepted, done, wrap, guard, retry,
                       routing, timed, backlog, lifeVars>>

\* MarkFailed: update-status with status FAILED and the error, which also
\* marks the RUNNING jobs FAILED; its input is what the Catch passed on
MarkFailed ==
    \E ok \in BOOLEAN :
        /\ pipe.at = "MarkFailed"
        /\ pipe' = IF /\ ParametersResolve(MarkFailedParameters,
                                           ExecutionInput \cup CatchOutput)
                      /\ ok
                   THEN [pipe EXCEPT !.at = "Succeeded",
                                     !.status = "FAILED",
                                     !.jobsError = TRUE]
                   ELSE [pipe EXCEPT !.at = "Failed", !.error = "MarkFailed"]
        /\ UNCHANGED <<slotVars, jobs, accepted, done, wrap, guard, retry,
                       routing, timed, backlog, lifeVars>>

\* ------------------------------------------------------------------------
\* Document lifecycle: rows, queue and handlers
\* ------------------------------------------------------------------------

DocIds == {"d1", "d2"}

\* the documents clients upload
Uploads == {"d1"}

\* concurrent invocations of the hard-delete worker
Workers == {"w1", "w2"}

\* cap on the messages (visible or in flight) the queue holds per document
MaxMsgs == 2

\* the clock stops here
MaxNow == 2

\* documents.retention_days, the policy window in days
RetentionDays == 1

\* deleted_at IS NULL
NoTime == -1

\* a document id no row was ever inserted for
NoDoc ==
    [exists |-> FALSE, status |-> "NONE", legalHold |-> FALSE, deletedAt |-> NoTime]

\* DELETE FROM documents WHERE id = $1 has removed the row
Purged ==
    [exists |-> FALSE, status |-> "PURGED", legalHold |-> FALSE, deletedAt |-> NoTime]

DocRow(status, legalHold, deletedAt) ==
    [exists |-> TRUE, status |-> status, legalHold |-> legalHold,
     deletedAt |-> deletedAt]

\* `${tenantId}/documents/${documentId}/` and `${tenantId}/derived/${documentId}/`
KeysOf(d) == {<<d, "documents">>, <<d, "derived">>}

NoReq == [doc |-> "none"]

\* retention-enforcement run: at is "idle" (not running: never run, or the
\* last run returned), "loop" (inside the for loop) or "threw" (the last run
\* ended by an error); todo are the selected rows not yet visited, failed
\* the rows of the run whose UPDATE threw
NoSweep == [at |-> "idle", todo |-> {}, failed |-> {}]

\* hard-delete worker invocation: at is "idle", "s3" (before
\* deleteS3Objects), "tx" (before withTransaction) or "off" (no instance);
\* doc is the document of its current or most recent message
WorkerIdle == [at |-> "idle", doc |-> "none"]

WorkerOff == [at |-> "off", doc |-> "none"]

NoMsgs == [d \in DocIds |-> 0]

NoResp == [op |-> "none", doc |-> "none", valid |-> FALSE, code |-> "none"]

Resp(op, d, valid, code) == [op |-> op, doc |-> d, valid |-> valid, code |-> code]

\* UPDATE documents SET status = $1 WHERE id = $2 (no row: nothing updated)
SetStatus(d, status) ==
    IF docs[d].exists THEN [docs EXCEPT ![d].status = status] ELSE docs

\* UPDATE documents SET status = $1, deleted_at = $2 WHERE id = $3
SetDeleted(d, status) ==
    IF docs[d].exists
    THEN [docs EXCEPT ![d].status = status, ![d].deletedAt = now]
    ELSE docs

\* createAuditLog: INSERT INTO audit_logs (an error of the INSERT would be
\* logged and swallowed; the store is taken to accept the row)
createAuditLog(d) == audit' = audit \cup {d}

\* init-upload: INSERT INTO documents (status UPLOADING), document_versions,
\* then the UPLOAD audit row
initUpload ==
    \E d \in Uploads :
        /\ docs[d].status = "NONE"
        /\ docs' = [docs EXCEPT ![d] = DocRow("UPLOADING", FALSE, NoTime)]
        /\ versionRows' = versionRows \cup {d}
        /\ createAuditLog(d)
        /\ UNCHANGED <<now, s3, jobRows, queue, softReq, permReq, sweep, worker,
                       exec, resp>>
        /\ UNCHANGED <<slotVars, stageVars>>

\* upload-complete (S3 event for the object the client has put): UPLOADING
\* becomes UPLOADED, any other status is kept, and a pipeline execution is
\* started; the version's processing_jobs rows exist from here on
uploadComplete ==
    \E d \in DocIds :
        /\ docs[d].exists
        /\ exec[d] = "idle"
        /\ s3' = s3 \cup {<<d, "documents">>}
        /\ docs' = IF docs[d].status = "UPLOADING" THEN SetStatus(d, "UPLOADED")
                                                  ELSE docs
        /\ jobRows' = jobRows \cup {d}
        /\ exec' = [exec EXCEPT ![d] = "started"]
        /\ UNCHANGED <<now, versionRows, queue, softReq, permReq, sweep, worker,
                       resp>>
        /\ UNCHANGED <<slotVars, stageVars, audit>>

\* upload-timeout: UPDATE ... SET status = 'FAILED' WHERE status = 'UPLOADING'
\* AND created_at < threshold (which uploads are that old is left open)
uploadTimeout ==
    \E d \in DocIds :
        /\ docs[d].exists
        /\ docs[d].status = "UPLOADING"
        /\ docs' = SetStatus(d, "FAILED")
        /\ UNCHANGED <<now, s3, versionRows, jobRows, queue, softReq, permReq,
                       sweep, worker, exec, resp>>
        /\ UNCHANGED <<slotVars, stageVars, audit>>

\* the update-status handler: UPDATE documents SET status = $1 WHERE id = $2
updateStatus(d, status) ==
    /\ docs' = SetStatus(d, status)
    /\ UNCHANGED <<now, versionRows, jobRows, queue, softReq, permReq, sweep,
                   worker, resp>>
    /\ UNCHANGED <<slotVars, stageVars, audit>>

\* state machine: UpdateStatusProcessing
updateStatusProcessing ==
    \E d \in DocIds :
        /\ exec[d] = "started"
        /\ updateStatus(d, "PROCESSING")
        /\ exec' = [exec EXCEPT ![d] = "parallel"]
        /\ s3' = s3

\* a branch of ParallelProcessing writes its artifacts under the derived prefix
writeDerived ==
    \E d \in DocIds :
        /\ exec[d] = "parallel"
        /\ <<d, "derived">> \notin s3
        /\ s3' = s3 \cup {<<d, "derived">>}
        /\ UNCHANGED <<docs, now, versionRows, jobRows, queue, softReq, permReq,
                       sweep, worker, exec, resp>>
        /\ UNCHANGED <<slotVars, stageVars, audit>>

\* state machine: MarkReady, after ParallelProcessing and IndexSearch
markReady ==
    \E d \in DocIds :
        /\ exec[d] = "parallel"
        /\ updateStatus(d, "READY")
        /\ exec' = [exec EXCEPT ![d] = "idle"]
        /\ s3' = s3

\* state machine: MarkFailed, the Catch of ParallelProcessing
markFailed ==
    \E d \in DocIds :
        /\ exec[d] = "parallel"
        /\ updateStatus(d, "FAILED")
        /\ exec' = [exec EXCEPT ![d] = "idle"]
        /\ s3' = s3

\* state machine: IndexSearch fails after its retries; the execution ends
\* without a status update
executionFails ==
    \E d \in DocIds :
        /\ exec[d] = "parallel"
        /\ exec' = [exec EXCEPT ![d] = "idle"]
        /\ UNCHANGED <<docs, now, s3, versionRows, jobRows, queue, softReq,
                       permReq, sweep, worker, resp>>
        /\ UNCHANGED <<slotVars, stageVars, audit>>

\* processing-success handler: UPDATE documents SET status = 'READY', then
\* the PROCESS_COMPLETE audit row
processingSuccess ==
    \E d \in DocIds :
        /\ exec[d] = "parallel"
        /\ docs' = SetStatus(d, "READY")
        /\ exec' = [exec EXCEPT ![d] = "idle"]
        /\ createAuditLog(d)
        /\ UNCHANGED <<now, s3, versionRows, jobRows, queue, softReq, permReq,
                       sweep, worker, resp>>
        /\ UNCHANGED <<slotVars, stageVars>>

\* processing-failure handler: UPDATE documents SET status = 'FAILED', then
\* the PROCESS_FAILED audit row
processingFailure ==
    \E d \in DocIds :
        /\ exec[d] = "parallel"
        /\ docs' = SetStatus(d, "FAILED")
        /\ exec' = [exec EXCEPT ![d] = "idle"]
        /\ createAuditLog(d)
        /\ UNCHANGED <<now, s3, versionRows, jobRows, queue, softReq, permReq,
                       sweep, worker, resp>>
        /\ UNCHANGED <<slotVars, stageVars>>

\* setLegalHold: SELECT, tenant check, UPDATE documents SET legal_hold = $1,
\* then the LEGAL_HOLD_SET / LEGAL_HOLD_REMOVED audit row
setLegalHold ==
    \E d \in DocIds, legalHold \in BOOLEAN, sameTenant \in BOOLEAN :
        /\ IF ~docs[d].exists
           THEN /\ resp' = Resp("legalHold", d, TRUE, "NOT_FOUND")
                /\ docs' = docs
                /\ audit' = audit
           ELSE IF ~sameTenant
           THEN /\ resp' = Resp("legalHold", d, FALSE, "FORBIDDEN")
                /\ docs' = docs
                /\ audit' = audit
           ELSE /\ resp' = Resp("legalHold", d, TRUE, "OK")
                /\ docs' = [docs EXCEPT ![d].legalHold = legalHold]
                /\ createAuditLog(d)
        /\ UNCHANGED <<now, s3, versionRows, jobRows, queue, softReq, permReq,
                       sweep, worker, exec>>
        /\ UNCHANGED <<slotVars, stageVars>>

\* delete-document: the checks between the SELECT and the UPDATE
DeleteCheckStatusFirst(row, sameTenant) ==
    IF ~row.exists THEN "NOT_FOUND"
    ELSE IF ~sameTenant THEN "FORBIDDEN"
    ELSE IF row.status \in {"DELETED", "DELETING"} THEN "CONFLICT"
    ELSE IF row.legalHold /\ row.status = "READY" THEN "CONFLICT"
    ELSE "OK"

DeleteCheck(row, sameTenant) ==
    IF ~row.exists THEN "NOT_FOUND"
    ELSE IF ~sameTenant THEN "FORBIDDEN"
    ELSE IF row.legalHold THEN "CONFLICT"
    ELSE IF row.status \in {"DELETED", "DELETING"} THEN "CONFLICT"
    ELSE "OK"

\* delete-document up to its checks: an AppError is the response
deleteDocumentRead ==
    \E d \in DocIds, sameTenant \in BOOLEAN :
        /\ softReq = NoReq
        /\ IF DeleteCheck(docs[d], sameTenant) = "OK"
           THEN /\ softReq' = [doc |-> d]
                /\ resp' = resp
           ELSE /\ softReq' = softReq
                /\ resp' = Resp("delete", d, ~docs[d].exists \/ sameTenant,
                                DeleteCheck(docs[d], sameTenant))
        /\ UNCHANGED <<docs, now, s3, versionRows, jobRows, queue, permReq,
                       sweep, worker, exec>>
        /\ UNCHANGED <<slotVars, stageVars, audit>>

\* delete-document: UPDATE documents SET status = 'DELETED', deleted_at = $2,
\* then the DELETE audit row
deleteDocumentWrite ==
    /\ softReq # NoReq
    /\ docs' = SetDeleted(softReq.doc, "DELETED")
    /\ resp' = Resp("delete", softReq.doc, TRUE, "OK")
    /\ softReq' = NoReq
    /\ createAuditLog(softReq.doc)
    /\ UNCHANGED <<now, s3, versionRows, jobRows, queue, permReq, sweep,
                   worker, exec>>
    /\ UNCHANGED <<slotVars, stageVars>>

\* permanent-delete without its `status === 'DELETING'` check
PermanentDeleteCheckNoStatus(row, admin, confirm, sameTenant) ==
    IF ~admin THEN "FORBIDDEN"
    ELSE IF ~confirm THEN "BAD_REQUEST"
    ELSE IF ~row.exists THEN "NOT_FOUND"
    ELSE IF ~sameTenant THEN "FORBIDDEN"
    ELSE IF row.legalHold THEN "CONFLICT"
    ELSE "OK"

\* messages for d that a worker has received and not yet finished with
InFlightMsgs(d) ==
    Cardinality({w \in Workers :
                    worker[w].at \in {"s3", "tx"} /\ worker[w].doc = d})

CanSend(d) == queue[d] + InFlightMsgs(d) < MaxMsgs

\* SendMessageCommand({documentId, tenantId}) to the hard-delete queue
SendMessage(d) == [queue EXCEPT ![d] = queue[d] + 1]

\* permanent-delete without its hasAdminRole check
PermanentDeleteCheckNoAdmin(row, admin, confirm, sameTenant) ==
    IF ~confirm THEN "BAD_REQUEST"
    ELSE IF ~row.exists THEN "NOT_FOUND"
    ELSE IF ~sameTenant THEN "FORBIDDEN"
    ELSE IF row.legalHold THEN "CONFLICT"
    ELSE IF row.status = "DELETING" THEN "CONFLICT"
    ELSE "OK"

\* permanent-delete: the checks between the request and the UPDATE
PermanentDeleteCheck(row, admin, confirm, sameTenant) ==
    IF ~admin THEN "FORBIDDEN"
    ELSE IF ~confirm THEN "BAD_REQUEST"
    ELSE IF ~row.exists THEN "NOT_FOUND"
    ELSE IF ~sameTenant THEN "FORBIDDEN"
    ELSE IF row.legalHold THEN "CONFLICT"
    ELSE IF row.status = "DELETING" THEN "CONFLICT"
    ELSE "OK"

permanentDeleteRead ==
    \E d \in DocIds, admin \in BOOLEAN, confirm \in BOOLEAN, sameTenant \in BOOLEAN :
        /\ permReq = NoReq
        /\ IF PermanentDeleteCheck(docs[d], admin, confirm, sameTenant) = "OK"
           THEN /\ permReq' = [doc |-> d, admin |-> admin, confirm |-> confirm,
                                sameTenant |-> sameTenant]
                /\ resp' = resp
           ELSE /\ permReq' = permReq
                /\ resp' = Resp("permanentDelete", d,
                                admin /\ confirm /\ (~docs[d].exists \/ sameTenant),
                                PermanentDeleteCheck(docs[d], admin, confirm,
                                                     sameTenant))
        /\ UNCHANGED <<docs, now, s3, versionRows, jobRows, queue, softReq,
                       sweep, worker, exec>>
        /\ UNCHANGED <<slotVars, stageVars, audit>>

\* permanent-delete: UPDATE documents SET status = 'DELETING', deleted_at = $2,
\* then SendMessage to the hard-delete queue (sendOk = FALSE: it throws),
\* then the PERMANENT_DELETE audit row
permanentDeleteWrite ==
    \E sendOk \in BOOLEAN :
        /\ permReq # NoReq
        /\ sendOk => CanSend(permReq.doc)
        /\ docs' = SetDeleted(permReq.doc, "DELETING")
        /\ queue' = IF sendOk THEN SendMessage(permReq.doc) ELSE queue
        /\ resp' = Resp("permanentDelete", permReq.doc, TRUE,
                        IF sendOk THEN "OK" ELSE "INTERNAL_ERROR")
        /\ permReq' = NoReq
        /\ IF sendOk THEN createAuditLog(permReq.doc) ELSE audit' = audit
        /\ UNCHANGED <<now, s3, versionRows, jobRows, softReq, sweep, worker,
                       exec>>
        /\ UNCHANGED <<slotVars, stageVars>>

\* retention-enforcement: WHERE status = 'DELETED' AND deleted_at IS NOT NULL
\* AND legal_hold = false AND NOW() - deleted_at > retention_days days
ExpiredInclusive(row) ==
    /\ row.exists
    /\ row.status = "DELETED"
    /\ row.deletedAt # NoTime
    /\ row.legalHold = FALSE
    /\ now - row.deletedAt >= RetentionDays

Expired(row) ==
    /\ row.exists
    /\ row.status = "DELETED"
    /\ row.deletedAt # NoTime
    /\ row.legalHold = FALSE
    /\ now - row.deletedAt > RetentionDays

\* retention-enforcement: the SELECT of a run (selectOk = FALSE: the query
\* throws and the handler rethrows); an empty result returns at once
retentionSelect ==
    \E selectOk \in BOOLEAN :
        /\ sweep.at # "loop"
        /\ sweep' =
             IF ~selectOk
             THEN [at |-> "threw", todo |-> {}, failed |-> {}]
             ELSE IF {d \in DocIds : Expired(docs[d])} = {}
             THEN NoSweep
             ELSE [at |-> "loop", todo |-> {d \in DocIds : Expired(docs[d])},
                   failed |-> {}]
        /\ UNCHANGED <<docs, now, s3, versionRows, jobRows, queue, softReq,
                       permReq, worker, exec, resp>>
        /\ UNCHANGED <<slotVars, stageVars, audit>>

\* the run after the loop body for d: a failed UPDATE is caught inside the
\* loop and logged, the loop goes on; after the last row the handler returns
SweepAfterAbortOnFailure(d, dbOk) ==
    IF dbOk
    THEN [at |-> IF sweep.todo = {d} THEN "idle" ELSE "loop",
          todo |-> sweep.todo \ {d},
          failed |-> sweep.failed]
    ELSE [at |-> "threw", todo |-> {}, failed |-> sweep.failed \cup {d}]

SweepAfter(d, dbOk) ==
    [at |-> IF sweep.todo = {d} THEN "idle" ELSE "loop",
     todo |-> sweep.todo \ {d},
     failed |-> IF dbOk THEN sweep.failed ELSE sweep.failed \cup {d}]

\* retention-enforcement: one iteration of the loop, UPDATE documents SET
\* status = 'DELETING' WHERE id = $2 (dbOk = FALSE: it throws and is logged)
retentionUpdate ==
    \E d \in sweep.todo, dbOk \in BOOLEAN :
        /\ sweep.at = "loop"
        /\ docs' = IF dbOk THEN SetStatus(d, "DELETING") ELSE docs
        /\ sweep' = SweepAfter(d, dbOk)
        /\ UNCHANGED <<now, s3, versionRows, jobRows, queue, softReq, permReq,
                       worker, exec, resp>>
        /\ UNCHANGED <<slotVars, stageVars, audit>>

\* hard-delete scheduler: LIMIT 100
ScheduleLimit == 100

\* hard-delete scheduler: SELECT ... WHERE status = 'DELETING'
ScheduleSelectsDeleted(row) == row.exists /\ row.status = "DELETED"

ScheduleSelects(row) == row.exists /\ row.status = "DELETING"

\* ORDER BY updated_at ASC LIMIT 100: the rows of DELETING documents that
\* were updated earlier come first; backlog of them are rows other than the
\* modelled ones, and a modelled row is counted before d when its deletion
\* was stamped earlier
Position(d) ==
    backlog + Cardinality({e \in DocIds \ {d} :
                              /\ ScheduleSelects(docs[e])
                              /\ docs[e].deletedAt < docs[d].deletedAt})

\* a scheduler whose SELECT has no LIMIT
WithinLimitAlways(d) == TRUE

WithinLimit(d) == Position(d) < ScheduleLimit

\* hard-delete scheduler, one iteration of its loop: SendMessage for a
\* selected row (sendOk = FALSE: it throws, is logged, and the loop goes on)
scheduleFor(d) ==
    \E sendOk \in BOOLEAN :
        /\ ScheduleSelects(docs[d])
        /\ WithinLimit(d)
        /\ CanSend(d)
        /\ queue' = IF sendOk THEN SendMessage(d) ELSE queue
        /\ UNCHANGED <<docs, now, s3, versionRows, jobRows, softReq, permReq,
                       sweep, worker, exec, resp>>
        /\ UNCHANGED <<slotVars, stageVars, audit>>

scheduleHardDelete == \E d \in DocIds : scheduleFor(d)

\* hard-delete worker, processMessage: whether the message is worked on
\* (the SELECT reads id, tenant_id, name, status)
ShouldPurgeUnlessHeld(row) ==
    row.exists /\ row.status = "DELETING" /\ ~row.legalHold

\* processMessage without its `status !== 'DELETING'` return
ShouldPurgeAnyStatus(row) == row.exists

ShouldPurge(row) == row.exists /\ row.status = "DELETING"

\* processMessage up to the status check: the message is received (it is
\* invisible while the invocation runs); a missing document or one not in
\* DELETING ends the invocation without error and the message is consumed
workerReceive ==
    \E w \in Workers, d \in DocIds :
        /\ worker[w].at = "idle"
        /\ queue[d] > 0
        /\ queue' = [queue EXCEPT ![d] = queue[d] - 1]
        /\ worker' = [worker EXCEPT ![w] =
                        IF ShouldPurge(docs[d])
                        THEN [at |-> "s3", doc |-> d]
                        ELSE [at |-> "idle", doc |-> d]]
        /\ UNCHANGED <<docs, now, s3, versionRows, jobRows, softReq, permReq,
                       sweep, exec, resp>>
        /\ UNCHANGED <<slotVars, stageVars, audit>>

\* the invocation of w ends by an error: processMessage and the handler
\* rethrow, the message becomes visible again and is redelivered
Rethrow(w) ==
    /\ worker' = [worker EXCEPT ![w] = [at |-> "idle", doc |-> worker[w].doc]]
    /\ queue' = SendMessage(worker[w].doc)

\* the worker goes on to withTransaction although deleteS3Objects threw
AfterS3Continues(w, outcome) ==
    /\ worker' = [worker EXCEPT ![w] = [at |-> "tx", doc |-> worker[w].doc]]
    /\ queue' = queue

\* after `await deleteS3Objects(...)`: on to withTransaction, or rethrow
AfterS3(w, outcome) ==
    IF outcome = "ok"
    THEN /\ worker' = [worker EXCEPT ![w] = [at |-> "tx", doc |-> worker[w].doc]]
         /\ queue' = queue
    ELSE Rethrow(w)

\* deleteS3Objects: every listed key under the documents prefix, then under
\* the derived prefix; a failed List or DeleteObjects call throws
workerDeleteS3 ==
    \E w \in Workers, outcome \in {"ok", "failFirst", "failSecond"} :
        /\ worker[w].at = "s3"
        /\ s3' = CASE outcome = "ok" -> s3 \ KeysOf(worker[w].doc)
                   [] outcome = "failFirst" -> s3
                   [] outcome = "failSecond" -> s3 \ {<<worker[w].doc, "documents">>}
        /\ AfterS3(w, outcome)
        /\ UNCHANGED <<docs, now, versionRows, jobRows, softReq, permReq,
                       sweep, exec, resp>>
        /\ UNCHANGED <<slotVars, stageVars, audit>>

\* the tables the transaction of the worker runs against
Rows ==
    [docs |-> docs, versionRows |-> versionRows, jobRows |-> jobRows,
     audit |-> audit]

\* the callback of withTransaction, statement by statement
\* DELETE FROM processing_jobs WHERE document_id = $1
DeleteJobs(st, d) == [st EXCEPT !.jobRows = st.jobRows \ {d}]

\* DELETE FROM document_versions WHERE document_id = $1
DeleteVersions(st, d) == [st EXCEPT !.versionRows = st.versionRows \ {d}]

\* a DELETE FROM documents that takes the document's audit_logs rows along
DeleteDocumentCascadesAudit(st, d) ==
    IF st.docs[d].exists
    THEN [st EXCEPT !.docs[d] = Purged, !.audit = st.audit \ {d}]
    ELSE st

\* DELETE FROM documents WHERE id = $1 (no row: nothing deleted, no error;
\* audit_logs.document_id is no foreign key, nothing cascades to it)
DeleteDocument(st, d) ==
    IF st.docs[d].exists THEN [st EXCEPT !.docs[d] = Purged] ELSE st

\* where a transaction can fail
FailPoints == {"none", "jobs", "versions", "document", "commit"}

\* a transaction whose DELETE FROM documents fails when the row is gone
TxFailPointsRowRequired(st, d) ==
    IF st.docs[d].exists THEN FailPoints ELSE {"document"}

\* how the transaction for d can end on the rows st: every statement can
\* throw for a reason of the store, none throws because rows are missing
TxFailPoints(st, d) == FailPoints

\* the rows as the transaction sees them when the statement failAt throws
\* (all three statements done when nothing throws before COMMIT)
TxRun(st, d, failAt) ==
    CASE failAt = "jobs" -> st
      [] failAt = "versions" -> DeleteJobs(st, d)
      [] failAt = "document" -> DeleteVersions(DeleteJobs(st, d), d)
      [] OTHER -> DeleteDocument(DeleteVersions(DeleteJobs(st, d), d), d)

\* a withTransaction whose catch does not ROLLBACK
withTransactionNoRollback(st, d, failAt) == TxRun(st, d, failAt)

\* withTransaction: BEGIN, the callback, COMMIT; on an error ROLLBACK and
\* rethrow
withTransaction(st, d, failAt) ==
    IF failAt = "none" THEN TxRun(st, d, failAt) ELSE st

\* processMessage: withTransaction(DELETE processing_jobs, document_versions,
\* documents); on success the invocation ends and the message is deleted
workerTransaction ==
    \E w \in Workers, failAt \in FailPoints :
        /\ worker[w].at = "tx"
        /\ failAt \in TxFailPoints(Rows, worker[w].doc)
        /\ docs' = withTransaction(Rows, worker[w].doc, failAt).docs
        /\ versionRows' = withTransaction(Rows, worker[w].doc, failAt).versionRows
        /\ jobRows' = withTransaction(Rows, worker[w].doc, failAt).jobRows
        /\ audit' = withTransaction(Rows, worker[w].doc, failAt).audit
        /\ IF failAt = "none"
           THEN /\ worker' = [worker EXCEPT ![w] =
                                [at |-> "idle", doc |-> worker[w].doc]]
                /\ queue' = queue
           ELSE Rethrow(w)
        /\ UNCHANGED <<now, s3, softReq, permReq, sweep, exec, resp>>
        /\ UNCHANGED <<slotVars, stageVars>>

\* the steps of the worker for d that go through: the receive, the S3
\* deletion without an error, the transaction that commits
workerReceiveFor(d) == workerReceive /\ queue'[d] = queue[d] - 1

workerDeleteS3Ok(d) ==
    /\ workerDeleteS3
    /\ \E w \in Workers :
           worker[w] = [at |-> "s3", doc |-> d] /\ worker'[w].at = "tx"

workerTransactionOk(d) ==
    /\ workerTransaction
    /\ \E w \in Workers :
           worker[w] = [at |-> "tx", doc |-> d] /\ worker'[w].at = "idle"
    /\ queue' = queue

\* a day passes
tick ==
    /\ now < MaxNow
    /\ now' = now + 1
    /\ UNCHANGED <<docs, s3, versionRows, jobRows, queue, softReq, permReq,
                   sweep, worker, exec, resp>>
    /\ UNCHANGED <<slotVars, stageVars, audit>>

\* rows created when a version enters the pipeline
InitJobs == [j \in JobIds |-> JobRow("PENDING", 0, FALSE, FALSE)]

InitSlots ==
    /\ table = [t \in Tenants |-> NoItem]
    /\ pc = [c \in Callers |-> Idle]
    /\ ret = NoRet
    /\ jobs = InitJobs
    /\ accepted = {}
    /\ done = {}
    /\ wrap = [c \in Callers |-> WrapIdle]
    /\ guard = NoGuard
    /\ retry = NoRetry
    /\ routing = NoRouting
    /\ timed = NoTimed
    /\ pipe = NoPipe
    /\ backlog = 0
    /\ docs = [d \in DocIds |-> NoDoc]
    /\ now = 0
    /\ s3 = {}
    /\ versionRows = {}
    /\ jobRows = {}
    /\ queue = NoMsgs
    /\ softReq = NoReq
    /\ permReq = NoReq
    /\ sweep = NoSweep
    /\ worker = [w \in Workers |-> WorkerIdle]
    /\ exec = [d \in DocIds |-> "idle"]
    /\ resp = NoResp
    /\ audit = {}

NextSlots ==
    \/ acquireConcurrencySlot
    \/ acquireDenied
    \/ releaseConcurrencySlot

\* the counter under concurrent acquire / release calls
SpecSlots == InitSlots /\ [][NextSlots]_vars

InitStage ==
    /\ table = [t \in Tenants |-> NoItem]
    /\ pc = [c \in Callers |-> Idle]
    /\ ret = NoRet
    /\ jobs = InitJobs
    /\ accepted = {}
    /\ done = {}
    /\ wrap = [c \in Callers |-> WrapIdle]
    /\ guard = NoGuard
    /\ retry = NoRetry
    /\ routing = NoRouting
    /\ timed = NoTimed
    /\ pipe = NoPipe
    /\ backlog = 0
    /\ docs = [d \in DocIds |-> NoDoc]
    /\ now = 0
    /\ s3 = {}
    /\ versionRows = {}
    /\ jobRows = {}
    /\ queue = NoMsgs
    /\ softReq = NoReq
    /\ permReq = NoReq
    /\ sweep = NoSweep
    /\ worker = [w \in Workers |-> WorkerIdle]
    /\ exec = [d \in DocIds |-> "idle"]
    /\ resp = NoResp
    /\ audit = {}

NextStage ==
    \/ enforceAndStartProcessing
    \/ enforceQueued
    \/ completeProcessing
    \/ handleProcessingFailure

\* the orchestrator's entry points, invoked once per queued message
SpecStage == InitStage /\ [][NextStage]_vars

\* executeWithConcurrencyEnforcement invocations sharing one tenant's counter
InitWrap ==
    /\ table = [t \in Tenants |-> NoItem]
    /\ pc = [c \in Callers |-> Idle]
    /\ ret = NoRet
    /\ jobs = InitJobs
    /\ accepted = {}
    /\ done = {}
    /\ wrap = [c \in Callers |-> WrapIdle]
    /\ guard = NoGuard
    /\ retry = NoRetry
    /\ routing = NoRouting
    /\ timed = NoTimed
    /\ pipe = NoPipe
    /\ backlog = 0
    /\ docs = [d \in DocIds |-> NoDoc]
    /\ now = 0
    /\ s3 = {}
    /\ versionRows = {}
    /\ jobRows = {}
    /\ queue = NoMsgs
    /\ softReq = NoReq
    /\ permReq = NoReq
    /\ sweep = NoSweep
    /\ worker = [w \in Workers |-> WorkerIdle]
    /\ exec = [d \in DocIds |-> "idle"]
    /\ resp = NoResp
    /\ audit = {}

NextWrap ==
    \/ executeEnforce
    \/ executeOperation
    \/ executeComplete
    \/ executeFailure

SpecWrap == InitWrap /\ [][NextWrap]_vars

\* the stage workers of one document version, invoked one after another
InitGuard ==
    /\ table = [t \in Tenants |-> NoItem]
    /\ pc = [c \in Callers |-> Idle]
    /\ ret = NoRet
    /\ jobs = InitJobs
    /\ accepted = {}
    /\ done = {}
    /\ wrap = [c \in Callers |-> WrapIdle]
    /\ guard \in {[NoGuard EXCEPT !.pageCount = n] : n \in 0 .. MaxPages}
    /\ retry = NoRetry
    /\ routing = NoRouting
    /\ timed = NoTimed
    /\ pipe = NoPipe
    /\ backlog = 0
    /\ docs = [d \in DocIds |-> NoDoc]
    /\ now = 0
    /\ s3 = {}
    /\ versionRows = {}
    /\ jobRows = {}
    /\ queue = NoMsgs
    /\ softReq = NoReq
    /\ permReq = NoReq
    /\ sweep = NoSweep
    /\ worker = [w \in Workers |-> WorkerIdle]
    /\ exec = [d \in DocIds |-> "idle"]
    /\ resp = NoResp
    /\ audit = {}

NextGuard ==
    \/ generateThumbnailHandler
    \/ splitPdfHandler
    \/ getTextractResultsHandler

SpecGuard == InitGuard /\ [][NextGuard]_vars

\* one retryWithExponentialBackoff invocation per configuration
InitRetry ==
    /\ table = [t \in Tenants |-> NoItem]
    /\ pc = [c \in Callers |-> Idle]
    /\ ret = NoRet
    /\ jobs = InitJobs
    /\ accepted = {}
    /\ done = {}
    /\ wrap = [c \in Callers |-> WrapIdle]
    /\ guard = NoGuard
    /\ retry \in {RetryStart(config) : config \in RetryConfigs}
    /\ routing = NoRouting
    /\ timed = NoTimed
    /\ pipe = NoPipe
    /\ backlog = 0
    /\ docs = [d \in DocIds |-> NoDoc]
    /\ now = 0
    /\ s3 = {}
    /\ versionRows = {}
    /\ jobRows = {}
    /\ queue = NoMsgs
    /\ softReq = NoReq
    /\ permReq = NoReq
    /\ sweep = NoSweep
    /\ worker = [w \in Workers |-> WorkerIdle]
    /\ exec = [d \in DocIds |-> "idle"]
    /\ resp = NoResp
    /\ audit = {}

NextRetry ==
    \/ retryAttempt
    \/ retrySleep
    \/ retryLoopEnds

SpecRetry == InitRetry /\ [][NextRetry]_vars

\* a task is routed and then run under the timeout of its worker type
InitTask ==
    /\ table = [t \in Tenants |-> NoItem]
    /\ pc = [c \in Callers |-> Idle]
    /\ ret = NoRet
    /\ jobs = InitJobs
    /\ accepted = {}
    /\ done = {}
    /\ wrap = [c \in Callers |-> WrapIdle]
    /\ guard = NoGuard
    /\ retry = NoRetry
    /\ routing \in {[NoRouting EXCEPT !.metadata = m] : m \in Metadatas}
    /\ timed = NoTimed
    /\ pipe = NoPipe
    /\ backlog = 0
    /\ docs = [d \in DocIds |-> NoDoc]
    /\ now = 0
    /\ s3 = {}
    /\ versionRows = {}
    /\ jobRows = {}
    /\ queue = NoMsgs
    /\ softReq = NoReq
    /\ permReq = NoReq
    /\ sweep = NoSweep
    /\ worker = [w \in Workers |-> WorkerIdle]
    /\ exec = [d \in DocIds |-> "idle"]
    /\ resp = NoResp
    /\ audit = {}

NextTask ==
    \/ routeTaskCall
    \/ executeTaskWithEnforcement
    \/ timerFires
    \/ cleanupSettles
    \/ operationSettles

SpecTask == InitTask /\ [][NextTask]_vars

\* one execution of the state machine, started by upload-complete
InitPipe ==
    /\ table = [t \in Tenants |-> NoItem]
    /\ pc = [c \in Callers |-> Idle]
    /\ ret = NoRet
    /\ jobs = InitJobs
    /\ accepted = {}
    /\ done = {}
    /\ wrap = [c \in Callers |-> WrapIdle]
    /\ guard = NoGuard
    /\ retry = NoRetry
    /\ routing = NoRouting
    /\ timed = NoTimed
    /\ pipe = [NoPipe EXCEPT !.at = "LoadRules"]
    /\ backlog = 0
    /\ docs = [d \in DocIds |-> NoDoc]
    /\ now = 0
    /\ s3 = {}
    /\ versionRows = {}
    /\ jobRows = {}
    /\ queue = NoMsgs
    /\ softReq = NoReq
    /\ permReq = NoReq
    /\ sweep = NoSweep
    /\ worker = [w \in Workers |-> WorkerIdle]
    /\ exec = [d \in DocIds |-> "idle"]
    /\ resp = NoResp
    /\ audit = {}

NextPipe ==
    \/ LoadRules
    \/ CheckVersion
    \/ IsLatest
    \/ UpdateStatusProcessing
    \/ BranchStart
    \/ BranchSucceeds
    \/ BranchFails
    \/ ParallelProcessing
    \/ IndexSearch
    \/ MarkReady
    \/ MarkFailed

SpecPipe == InitPipe /\ [][NextPipe]_vars

\* every state of the execution that can be taken is eventually taken
SpecPipeFair == SpecPipe /\ WF_vars(NextPipe)

InitLife ==
    /\ table = [t \in Tenants |-> NoItem]
    /\ pc = [c \in Callers |-> Idle]
    /\ ret = NoRet
    /\ jobs = InitJobs
    /\ accepted = {}
    /\ done = {}
    /\ wrap = [c \in Callers |-> WrapIdle]
    /\ guard = NoGuard
    /\ retry = NoRetry
    /\ routing = NoRouting
    /\ timed = NoTimed
    /\ pipe = NoPipe
    /\ backlog = 0
    /\ docs = [d \in DocIds |-> NoDoc]
    /\ now = 0
    /\ s3 = {}
    /\ versionRows = {}
    /\ jobRows = {}
    /\ queue = NoMsgs
    /\ softReq = NoReq
    /\ permReq = NoReq
    /\ sweep = NoSweep
    /\ worker = [w \in Workers |-> IF w = "w1" THEN WorkerIdle ELSE WorkerOff]
    /\ exec = [d \in DocIds |-> "idle"]
    /\ resp = NoResp
    /\ audit = {}

NextLife ==
    \/ initUpload
    \/ uploadComplete
    \/ uploadTimeout
    \/ updateStatusProcessing
    \/ writeDerived
    \/ markReady
    \/ markFailed
    \/ executionFails
    \/ processingSuccess
    \/ processingFailure
    \/ setLegalHold
    \/ deleteDocumentRead
    \/ deleteDocumentWrite
    \/ permanentDeleteRead
    \/ permanentDeleteWrite
    \/ retentionSelect
    \/ retentionUpdate
    \/ scheduleHardDelete
    \/ workerReceive
    \/ workerDeleteS3
    \/ workerTransaction
    \/ tick

\* the lifecycle of documents under concurrent handlers
SpecLife == InitLife /\ [][NextLife]_vars

\* rows the deletion machinery finds: a READY document, a soft-deleted one
\* (stamped today or yesterday, held or not), one an admin has moved to
\* DELETING today (a hold may have been set on it since)
PurgeRows ==
    {DocRow("READY", FALSE, NoTime)}
    \cup {DocRow("DELETED", h, t) : h \in BOOLEAN, t \in 0 .. 1}
    \cup {DocRow("DELETING", h, 1) : h \in BOOLEAN}

\* two processed documents with their objects and rows, on day 1; messages
\* sent earlier may be on the queue; two worker instances
InitPurge ==
    /\ table = [t \in Tenants |-> NoItem]
    /\ pc = [c \in Callers |-> Idle]
    /\ ret = NoRet
    /\ jobs = InitJobs
    /\ accepted = {}
    /\ done = {}
    /\ wrap = [c \in Callers |-> WrapIdle]
    /\ guard = NoGuard
    /\ retry = NoRetry
    /\ routing = NoRouting
    /\ timed = NoTimed
    /\ pipe = NoPipe
    /\ backlog = 0
    /\ docs \in [DocIds -> PurgeRows]
    /\ now = 1
    /\ s3 = UNION {KeysOf(d) : d \in DocIds}
    /\ versionRows = DocIds
    /\ jobRows = DocIds
    /\ queue \in [DocIds -> 0 .. 1]
    /\ softReq = NoReq
    /\ permReq = NoReq
    /\ sweep = NoSweep
    /\ worker = [w \in Workers |-> WorkerIdle]
    /\ exec = [d \in DocIds |-> "idle"]
    /\ resp = NoResp
    /\ audit = DocIds

NextPurge ==
    \/ retentionSelect
    \/ retentionUpdate
    \/ scheduleHardDelete
    \/ workerReceive
    \/ workerDeleteS3
    \/ workerTransaction
    \/ tick

\* the deletion machinery: retention sweep, scheduler, hard-delete workers
SpecPurge == InitPurge /\ [][NextPurge]_vars

\* the scheduler runs again and again, and a SendMessage it repeats for a
\* document goes through in the end
SpecPurgeFair ==
    /\ InitPurge
    /\ [][NextPurge]_vars
    /\ \A d \in DocIds : WF_vars(scheduleFor(d))

\* the deletion machinery next to a table that holds no other DELETING
\* document, or as many older ones as the scheduler selects in one run
InitBacklog ==
    /\ table = [t \in Tenants |-> NoItem]
    /\ pc = [c \in Callers |-> Idle]
    /\ ret = NoRet
    /\ jobs = InitJobs
    /\ accepted = {}
    /\ done = {}
    /\ wrap = [c \in Callers |-> WrapIdle]
    /\ guard = NoGuard
    /\ retry = NoRetry
    /\ routing = NoRouting
    /\ timed = NoTimed
    /\ pipe = NoPipe
    /\ backlog \in {0, ScheduleLimit}
    /\ docs \in [DocIds -> PurgeRows]
    /\ now = 1
    /\ s3 = UNION {KeysOf(d) : d \in DocIds}
    /\ versionRows = DocIds
    /\ jobRows = DocIds
    /\ queue \in [DocIds -> 0 .. 1]
    /\ softReq = NoReq
    /\ permReq = NoReq
    /\ sweep = NoSweep
    /\ worker = [w \in Workers |-> WorkerIdle]
    /\ exec = [d \in DocIds |-> "idle"]
    /\ resp = NoResp
    /\ audit = DocIds

\* the scheduler and the workers keep running; a send that is repeated goes
\* through in the end, and so do the storage and database operations of the
\* worker on each document
SpecBacklogFair ==
    /\ InitBacklog
    /\ [][NextPurge]_vars
    /\ \A d \in DocIds :
           /\ WF_vars(scheduleFor(d))
           /\ SF_vars(workerReceiveFor(d))
           /\ SF_vars(workerDeleteS3Ok(d))
           /\ SF_vars(workerTransactionOk(d))

\* ------------------------------------------------------------------------
\* Properties of the counter (SpecSlots)
\* ------------------------------------------------------------------------

\* C1: for a tenant whose stored limit L is >= 1, current_count stays in
\* [0, L] under every interleaving of acquire and release; the counter only
\* changes by an increment taken strictly below the limit (or creating the
\* record) or by a decrement taken strictly above zero, so no acquire
\* succeeds at current_count = L and a release at zero or on a missing
\* record changes nothing; a release always returns a status, never an error.
CountStep(t) ==
    \/ table'[t] = table[t]
    \/ /\ ~table[t].exists
       /\ table'[t].exists
       /\ table'[t].current_count = 1
    \/ /\ table[t].exists
       /\ table'[t].exists
       /\ table[t].current_count < table[t].concurrency_limit
       /\ table'[t].current_count = table[t].current_count + 1
    \/ /\ table[t].exists
       /\ table'[t].exists
       /\ table[t].current_count > 0
       /\ table'[t].current_count = table[t].current_count - 1

C1_CountWithinLimit ==
    /\ [](\A t \in Tenants :
            (table[t].exists /\ table[t].concurrency_limit >= 1) =>
                /\ table[t].current_count >= 0
                /\ table[t].current_count <= table[t].concurrency_limit)
    /\ [][\A t \in Tenants : CountStep(t)]_vars
    /\ [](ret.op = "release" => ret.kind = "status")

\* C1 witness: a tenant is full (count = limit) and an acquire was denied
C1_Witness ==
    \E t \in Tenants :
        /\ table[t].exists
        /\ table[t].current_count = table[t].concurrency_limit
        /\ ret.op = "acquire" /\ ret.kind = "denied" /\ ret.tenant = t

\* C3: an acquire is denied only when the record exists and its count is
\* not strictly below its stored limit; the failed conditional update and
\* the read that follows leave the record unchanged, and the error carries
\* the count and limit that read finds.
DeniedStep(c) ==
    /\ (pc[c].at = "idle" /\ pc'[c].at = "denied") =>
            /\ table[pc'[c].tenant].exists
            /\ ~(table[pc'[c].tenant].current_count
                    < table[pc'[c].tenant].concurrency_limit)
            /\ table' = table
    /\ (pc[c].at = "denied" /\ pc'[c].at = "idle") =>
            /\ table' = table
            /\ ret'.op = "acquire" /\ ret'.kind = "denied"
            /\ ret'.tenant = pc[c].tenant
            /\ ret'.currentCount = table[pc[c].tenant].current_count
            /\ ret'.limit = table[pc[c].tenant].concurrency_limit

C3_DeniedLeavesCounter == [][\A c \in Callers : DeniedStep(c)]_vars

\* C3 witness: a denial was reported for a record that is still full
C3_Witness ==
    /\ ret.kind = "denied"
    /\ ret.currentCount >= ret.limit
    /\ table[ret.tenant] = Item(ret.currentCount, ret.limit)
    /\ \A c \in Callers : pc[c].at = "idle"

\* C4 as stated: the first acquire stores the limit it is given, or 10 when
\* none is given; later acquires leave the stored limit unchanged.
GivenOrDefault(limitArg) ==
    IF limitArg = NoLimit THEN DEFAULT_CONCURRENCY_LIMIT ELSE limitArg

C4_FirstAcquireStoresGiven ==
    [][\A t \in Tenants :
        /\ (~table[t].exists /\ table'[t].exists) =>
                table'[t].concurrency_limit = GivenOrDefault(ret'.limitArg)
        /\ table[t].exists =>
                table'[t].concurrency_limit = table[t].concurrency_limit]_vars

\* C4 amended: the first acquire stores the limit it is given, or 10 when
\* none is given or the given limit is 0; every later acquire, whatever
\* limit it passes, leaves the stored limit unchanged and is admitted
\* exactly when the count is strictly below the stored limit.
GivenNonZeroOrDefault(limitArg) ==
    IF limitArg = NoLimit \/ limitArg = 0 THEN DEFAULT_CONCURRENCY_LIMIT
                                          ELSE limitArg

C4_LimitSticky ==
    [][\A t \in Tenants :
        /\ (~table[t].exists /\ table'[t].exists) =>
                table'[t].concurrency_limit = GivenNonZeroOrDefault(ret'.limitArg)
        /\ table[t].exists =>
                /\ table'[t].exists
                /\ table'[t].concurrency_limit = table[t].concurrency_limit
        /\ (table[t].exists /\ table'[t].current_count > table[t].current_count) =>
                table[t].current_count < table[t].concurrency_limit
        /\ \A c \in Callers :
              (pc[c].at = "idle" /\ pc'[c].at = "denied" /\ pc'[c].tenant = t) =>
                table[t].current_count >= table[t].concurrency_limit]_vars

\* C4 witness: a later acquire passing another limit was admitted and the
\* stored limit is still the first one
C4_Witness ==
    /\ ret.op = "acquire" /\ ret.kind = "status"
    /\ ret.limitArg \in 1 .. MaxLimitArg
    /\ ret.currentCount >= 2
    /\ table[ret.tenant].exists
    /\ table[ret.tenant].concurrency_limit # ret.limitArg

\* C5 as stated: every status returned by acquire or release reports the
\* tenant's stored count and stored limit (0 and the default when no record
\* exists) with available = max(0, limit - currentCount).
C5_StatusReportsStored ==
    ret.kind = "status" =>
        /\ ret.currentCount = getCurrentConcurrency(table[ret.tenant]).currentCount
        /\ ret.limit = getCurrentConcurrency(table[ret.tenant]).limit
        /\ ret.available = Max(0, ret.limit - ret.currentCount)

\* ------------------------------------------------------------------------
\* Properties of the orchestrator (SpecStage)
\* ------------------------------------------------------------------------

InFlight(t) == {j \in accepted : TenantOf(j) = t}

\* C2 as stated: under any sequence of runStage and complete calls,
\* redelivered complete calls included, the number of a tenant's jobs that
\* were ACCEPTED and have not yet completed never exceeds the tenant's limit.
C2_InFlightWithinLimit ==
    \A t \in Tenants :
        IF table[t].exists
        THEN Cardinality(InFlight(t)) <= table[t].concurrency_limit
        ELSE InFlight(t) = {}

\* ------------------------------------------------------------------------
\* Properties of the document lifecycle (SpecLife)
\* ------------------------------------------------------------------------

\* C6 as stated: no step changes a document's status to DELETED or DELETING
\* while that document's legalHold is true.
C6_NoDeletionUnderHold ==
    [][\A d \in DocIds :
        (/\ docs[d].exists
         /\ docs[d].legalHold
         /\ docs'[d].status # docs[d].status)
        => docs'[d].status \notin {"DELETED", "DELETING"}]_vars

\* C7: a soft-delete or permanent-delete request (authorised, confirmed, for
\* the caller's own document) that finds legalHold = true is never let through
\* to its UPDATE; it is answered with CONFLICT whatever the status is, and
\* that step leaves the document rows and the hard-delete queue unchanged.
RejectionStep ==
    /\ resp' # resp
    /\ softReq' = softReq
    /\ permReq' = permReq
    /\ resp'.op \in {"delete", "permanentDelete"}

C7_HeldDeleteRejected ==
    [][/\ (softReq = NoReq /\ softReq' # NoReq) =>
              (docs[softReq'.doc].exists /\ ~docs[softReq'.doc].legalHold)
       /\ (permReq = NoReq /\ permReq' # NoReq) =>
              (docs[permReq'.doc].exists /\ ~docs[permReq'.doc].legalHold)
       /\ (/\ RejectionStep
           /\ resp'.valid
           /\ docs[resp'.doc].exists
           /\ docs[resp'.doc].legalHold)
          => /\ resp'.code = "CONFLICT"
             /\ docs' = docs
             /\ queue' = queue]_vars

\* C7 witness: a permanent delete of a held, soft-deleted document was
\* answered with CONFLICT
C7_Witness ==
    /\ resp.op = "permanentDelete"
    /\ resp.valid
    /\ resp.code = "CONFLICT"
    /\ docs[resp.doc].exists
    /\ docs[resp.doc].legalHold
    /\ docs[resp.doc].status = "DELETED"
    /\ docs[resp.doc].deletedAt # NoTime
    /\ queue[resp.doc] = 0

\* C8 as stated: no step removes storage objects or database rows of a
\* document whose legalHold is true.
C8_HeldNeverPurged ==
    [][\A d \in DocIds :
        (docs[d].exists /\ docs[d].legalHold) =>
            /\ docs'[d].exists
            /\ (KeysOf(d) \cap s3) \subseteq s3'
            /\ (d \in versionRows => d \in versionRows')
            /\ (d \in jobRows => d \in jobRows')]_vars

\* the transition table of C9
AllowedTransitions ==
    {<<"UPLOADING", "UPLOADED">>, <<"UPLOADING", "FAILED">>,
     <<"UPLOADED", "PROCESSING">>,
     <<"PROCESSING", "READY">>, <<"PROCESSING", "FAILED">>,
     <<"READY", "DELETED">>, <<"FAILED", "DELETED">>,
     <<"DELETED", "DELETING">>}

\* C9 as stated: every change of a document's status follows the allowed
\* transitions, and a row is removed only from DELETING.
C9_TransitionsAllowed ==
    [][\A d \in DocIds :
        (docs[d].exists /\ docs'[d].status # docs[d].status) =>
            IF docs'[d].exists
            THEN <<docs[d].status, docs'[d].status>> \in AllowedTransitions
            ELSE docs[d].status = "DELETING"]_vars

\* C10 as stated: a DELETED document changes only to DELETING, and a
\* DELETING document never changes status again (its row is only removed).
C10_DeletionNotLeft ==
    [][\A d \in DocIds :
        (docs[d].exists /\ docs'[d].exists) =>
            /\ docs[d].status = "DELETED" =>
                    docs'[d].status \in {"DELETED", "DELETING"}
            /\ docs[d].status = "DELETING" =>
                    docs'[d].status = "DELETING"]_vars

\* C11: a soft-delete request that reads a document in DELETED or DELETING,
\* and a permanent-delete request that reads one in DELETING, never reaches
\* its UPDATE; it is answered with CONFLICT and that step leaves every
\* document row (status and deletedAt included) and the queue unchanged.
C11_AlreadyDeletedRejected ==
    [][/\ (softReq = NoReq /\ softReq' # NoReq) =>
              docs[softReq'.doc].status \notin {"DELETED", "DELETING"}
       /\ (permReq = NoReq /\ permReq' # NoReq) =>
              docs[permReq'.doc].status # "DELETING"
       /\ (/\ RejectionStep
           /\ resp'.valid
           /\ docs[resp'.doc].exists
           /\ \/ /\ resp'.op = "delete"
                 /\ docs[resp'.doc].status \in {"DELETED", "DELETING"}
              \/ /\ resp'.op = "permanentDelete"
                 /\ docs[resp'.doc].status = "DELETING")
          => /\ resp'.code = "CONFLICT"
             /\ docs' = docs
             /\ queue' = queue]_vars

\* C11 witness: a day after a soft delete, a second soft delete of the
\* document (no legal hold on it) was answered with CONFLICT and the stamp
\* is still the first one
C11_Witness ==
    /\ resp.op = "delete"
    /\ resp.valid
    /\ resp.code = "CONFLICT"
    /\ docs[resp.doc].exists
    /\ ~docs[resp.doc].legalHold
    /\ docs[resp.doc].status = "DELETED"
    /\ docs[resp.doc].deletedAt # NoTime
    /\ docs[resp.doc].deletedAt < now

\* ------------------------------------------------------------------------
\* Properties of the deletion machinery (SpecPurge)
\* ------------------------------------------------------------------------

\* the documents C12 names: status DELETED, deletedAt set, no legal hold,
\* and now - deletedAt strictly greater than the retention window
Eligible ==
    {d \in DocIds : /\ docs[d].exists
                    /\ docs[d].status = "DELETED"
                    /\ docs[d].deletedAt # NoTime
                    /\ ~docs[d].legalHold
                    /\ now - docs[d].deletedAt > RetentionDays}

\* C12: a retention run selects exactly the documents that are DELETED,
\* stamped, not held and past their window (strictly) when it reads them,
\* and changes nothing by selecting; each step of its loop takes one selected
\* document, sets that document's status to DELETING (or fails and changes
\* nothing) and leaves every other document as it is.
C12_SweepPromotesExpired ==
    [][/\ (sweep.at # "loop" /\ sweep'.at = "loop") =>
              (sweep'.todo = Eligible /\ docs' = docs)
       /\ (sweep.at # "loop" /\ sweep' # sweep /\ sweep'.at = "idle") =>
              (Eligible = {} /\ docs' = docs)
       /\ (sweep.at = "loop" /\ sweep' # sweep) =>
              \E d \in sweep.todo :
                  /\ sweep'.todo = sweep.todo \ {d}
                  /\ \/ docs' = docs
                     \/ /\ docs[d].exists
                        /\ docs' = [docs EXCEPT ![d].status = "DELETING"]]_vars

\* C12 witness: on day 2 a run has promoted a document deleted on day 0
\* (window of RetentionDays = 1) and has left alone one deleted on day 1
C12_Witness ==
    \E d \in DocIds, e \in DocIds :
        /\ now - docs[d].deletedAt > RetentionDays
        /\ docs[d].status = "DELETING"
        /\ docs[d].deletedAt = 0
        /\ docs[e].status = "DELETED"
        /\ ~docs[e].legalHold
        /\ docs[e].deletedAt = 1
        /\ now = 2
        /\ sweep.at = "idle"
        /\ sweep.failed = {}

C14_SweepContinuesAfterFailure ==
    [][(sweep.at = "loop" /\ sweep' # sweep) =>
          /\ sweep'.at # "threw"
          /\ sweep'.at = "idle" <=> sweep'.todo = {}
          /\ \E d \in sweep.todo :
                /\ sweep'.todo = sweep.todo \ {d}
                /\ sweep'.failed \in {sweep.failed, sweep.failed \cup {d}}
                /\ (sweep'.failed = sweep.failed /\ docs[d].exists) =>
                       docs'[d].status = "DELETING"]_vars

\* C14 witness: the UPDATE of one document of the batch has failed and the
\* run is still in its loop with the other document to do
C14_Witness ==
    /\ sweep.at = "loop"
    /\ sweep.failed # {}
    /\ sweep.todo # {}
    /\ \A d \in sweep.failed : docs[d].status = "DELETED"

\* a step in which worker w, holding the message of document d, moves on
WorkerStep(w, d) ==
    /\ worker[w].at \in {"s3", "tx"}
    /\ worker[w].doc = d
    /\ worker'[w] # worker[w]

\* no table row and no object of any document changes
StoresUnchanged ==
    /\ docs' = docs
    /\ versionRows' = versionRows
    /\ jobRows' = jobRows
    /\ s3' = s3
    /\ audit' = audit

\* C15: when a worker takes a message whose document is missing or is not in
\* DELETING, the invocation ends there without an error: no worker starts
\* deleting, the message is consumed and not redelivered, and no object and
\* no row of any table changes; only a document in DELETING is worked on.
C15_SkipIsNoOp ==
    [][\A d \in DocIds :
        queue'[d] < queue[d] =>
            /\ queue'[d] = queue[d] - 1
            /\ StoresUnchanged
            /\ IF docs[d].exists /\ docs[d].status = "DELETING"
               THEN \E w \in Workers :
                       /\ worker[w].at = "idle"
                       /\ worker' = [worker EXCEPT ![w] = [at |-> "s3", doc |-> d]]
               ELSE \A w \in Workers : worker'[w].at = worker[w].at]_vars

\* C15 witness: the only message of a document that is not in DELETING has
\* been taken by a worker that is idle again; objects and rows are all there
C15_Witness ==
    \E w \in Workers, d \in DocIds :
        /\ worker[w] = [at |-> "idle", doc |-> d]
        /\ docs[d].exists
        /\ docs[d].status # "DELETING"
        /\ queue[d] = 0
        /\ InFlightMsgs(d) = 0
        /\ KeysOf(d) \subseteq s3
        /\ d \in versionRows
        /\ d \in jobRows

\* C16 as stated: when a worker's transaction for a document has committed
\* (the invocation ends without redelivery), no row of the document and no
\* object under its two prefixes remains, whatever else ran in between.
C16_PurgeLeavesNothing ==
    [][\A w \in Workers, d \in DocIds :
        (/\ WorkerStep(w, d)
         /\ worker[w].at = "tx"
         /\ queue' = queue)
        => /\ ~docs'[d].exists
           /\ d \notin versionRows'
           /\ d \notin jobRows'
           /\ KeysOf(d) \cap s3' = {}]_vars

\* C17: no step of a hard-delete worker changes the audit_logs rows; in
\* particular a committed purge leaves the document's audit rows in place.
C17_AuditSurvivesPurge ==
    [][(worker' # worker) => audit' = audit]_vars

\* C17 witness: a purged document whose audit rows are still there
C17_Witness ==
    \E d \in DocIds :
        /\ docs[d] = Purged
        /\ d \notin versionRows
        /\ d \in audit

C19_TransactionAtomic ==
    /\ [](\A w \in Workers, f \in FailPoints :
            worker[w].at = "tx" =>
                /\ ~TxRun(Rows, worker[w].doc, f).docs[worker[w].doc].exists
                      => worker[w].doc \notin TxRun(Rows, worker[w].doc, f).versionRows
                /\ worker[w].doc \notin TxRun(Rows, worker[w].doc, f).versionRows
                      => worker[w].doc \notin TxRun(Rows, worker[w].doc, f).jobRows)
    /\ [][\A w \in Workers, d \in DocIds :
            (WorkerStep(w, d) /\ worker[w].at = "tx") =>
                \/ /\ ~docs'[d].exists
                   /\ d \notin versionRows'
                   /\ d \notin jobRows'
                   /\ queue' = queue
                \/ /\ docs' = docs
                   /\ versionRows' = versionRows
                   /\ jobRows' = jobRows
                   /\ queue' = [queue EXCEPT ![d] = queue[d] + 1]]_vars

\* C19 witness: after the objects of a document were all deleted its
\* transaction failed: every row is still there, the document is in
\* DELETING and the message is on the queue again
C19_Witness ==
    \E w \in Workers, d \in DocIds :
        /\ worker[w] = [at |-> "idle", doc |-> d]
        /\ docs[d].exists
        /\ docs[d].status = "DELETING"
        /\ d \in versionRows
        /\ d \in jobRows
        /\ KeysOf(d) \cap s3 = {}
        /\ queue[d] > 0

\* C20: a worker that works on a document another invocation has already
\* purged changes no row and no object (two messages leave the state one
\* leaves), its transaction can still commit (nothing in it fails for the
\* rows being gone), and a worker only ever touches the rows and objects of
\* the document its message names.
C20_RedeliveryIdempotent ==
    /\ [](\A w \in Workers :
            worker[w].at = "tx" => "none" \in TxFailPoints(Rows, worker[w].doc))
    /\ [][\A w \in Workers, d \in DocIds :
            WorkerStep(w, d) =>
                /\ ~docs[d].exists => StoresUnchanged
                /\ \A e \in DocIds \ {d} :
                      /\ docs'[e] = docs[e]
                      /\ (e \in versionRows' <=> e \in versionRows)
                      /\ (e \in jobRows' <=> e \in jobRows)
                      /\ KeysOf(e) \cap s3' = KeysOf(e) \cap s3]_vars

\* C20 witness: both workers have handled a message of the same document,
\* which is purged; no message of it is left
C20_Witness ==
    \E d \in DocIds :
        /\ docs[d] = Purged
        /\ \A w \in Workers : worker[w] = [at |-> "idle", doc |-> d]
        /\ queue[d] = 0
        /\ KeysOf(d) \cap s3 = {}
        /\ d \notin versionRows
        /\ d \notin jobRows

\* C21 as stated: no retention run writes to a document (its UPDATE goes
\* through on an existing row) while a hard-delete worker holds a message of
\* that document and is purging it.
C21_SweepAvoidsPurging ==
    [][\A d \in DocIds :
        (/\ sweep.at = "loop"
         /\ d \in sweep.todo
         /\ d \notin sweep'.todo
         /\ sweep'.failed = sweep.failed
         /\ docs[d].exists)
        => InFlightMsgs(d) = 0]_vars


\* C22: a denied runStage does not throw: it returns QUEUED with the stored
\* limit in its reason, leaves the job PENDING with exactly one more attempt
\* and takes no slot (counter and accepted set untouched); an acquired slot
\* leaves the job RUNNING with its start timestamp set and returns ACCEPTED
\* with the status of the counter after the increment.  A throw happens only
\* when the job UPDATE itself fails.
C22_RunStageOutcomes ==
    [][/\ \A c \in Callers :
            (pc[c].at = "denied" /\ pc[c].job # "none" /\ pc'[c] = Idle)
            => /\ table' = table
               /\ accepted' = accepted
               /\ ret'.op = "runStage"
               /\ ret'.kind \in {"QUEUED", "error"}
               /\ ret'.kind = "QUEUED"
                  => /\ ret'.job = pc[c].job
                     /\ ret'.limit = table[pc[c].tenant].concurrency_limit
                     /\ jobs'[pc[c].job].status = "PENDING"
                     /\ jobs'[pc[c].job].attempts = jobs[pc[c].job].attempts + 1
       /\ \A c \in Callers :
            (pc[c].at = "idle" /\ pc'[c].at = "denied" /\ pc'[c].job # "none")
            => table' = table /\ accepted' = accepted /\ ret' = ret
       /\ \A t \in Tenants :
            (pc' = pc /\ table'[t] # table[t] /\ table'[t].exists
             /\ (~table[t].exists
                 \/ table'[t].current_count > table[t].current_count))
            => /\ ret'.op = "runStage"
               /\ ret'.kind \in {"ACCEPTED", "error"}
               /\ ret'.kind = "ACCEPTED"
                  => /\ jobs'[ret'.job].status = "RUNNING"
                     /\ jobs'[ret'.job].started
                     /\ ret'.job \in accepted'
                     /\ ret'.currentCount = table'[t].current_count
                     /\ ret'.limit = table'[t].concurrency_limit
                     /\ ret'.available = ret'.limit - ret'.currentCount]_vars

\* a runStage came back QUEUED: the job is PENDING with one attempt recorded,
\* holds no slot, and the reason carries the limit of the full counter
C22_Witness ==
    /\ ret.op = "runStage"
    /\ ret.kind = "QUEUED"
    /\ jobs[ret.job].status = "PENDING"
    /\ jobs[ret.job].attempts = 1
    /\ ret.job \notin accepted
    /\ ret.limit = table[ret.tenant].concurrency_limit
    /\ table[ret.tenant].current_count = table[ret.tenant].concurrency_limit

\* C23: with the tenant's stored limit at 1, a runStage arriving while the
\* one slot is taken is denied and never accepted; completing the accepted
\* job gives the slot back, and a runStage arriving at a free counter is
\* accepted, not denied.
C23_QueuedThenAccepted ==
    [][/\ \A t \in Tenants :
            (table[t].exists /\ table[t].concurrency_limit = 1
             /\ table[t].current_count = 1)
            => table'[t].current_count <= 1
       /\ \A c \in Callers :
            (pc[c].at = "idle" /\ pc'[c].at = "denied" /\ pc'[c].job # "none")
            => /\ table[pc'[c].tenant].exists
               /\ table[pc'[c].tenant].current_count
                    >= table[pc'[c].tenant].concurrency_limit
       /\ \A j \in accepted \ accepted' :
            table'[TenantOf(j)].current_count =
                Max(0, table[TenantOf(j)].current_count - 1)]_vars

\* limit 1: j2 was queued once, j1 has completed, and the redelivered
\* runStage of j2 has just been accepted into the only slot
C23_Witness ==
    /\ table["t1"].exists
    /\ table["t1"].concurrency_limit = 1
    /\ table["t1"].current_count = 1
    /\ jobs["j1"].status = "COMPLETED"
    /\ "j1" \in done
    /\ ret.op = "runStage"
    /\ ret.kind = "ACCEPTED"
    /\ ret.job = "j2"
    /\ jobs["j2"].status = "RUNNING"
    /\ jobs["j2"].attempts = 1
    /\ accepted = {"j2"}

\* C24 as stated: an executeWithConcurrencyEnforcement invocation that
\* acquired a slot has released it exactly once when it returns or throws.
C24_ReleasedExactlyOnce ==
    \A c \in Callers :
        (WrapExited(wrap[c]) /\ wrap[c].acquired) => wrap[c].released = 1

\* C25 as stated: a runStage for a job that is COMPLETED takes no slot for
\* it and leaves the job COMPLETED.
C25_CompletedStageNotRerun ==
    [][\A j \in JobIds :
        (jobs[j].status = "COMPLETED" /\ j \in done /\ j \notin accepted)
        => /\ jobs'[j].status = "COMPLETED"
           /\ j \notin accepted']_vars


SameCall(a, b) == a.stage = b.stage /\ a.input = b.input

\* C26: when a stage worker (thumbnails, OCR result retrieval, PDF split)
\* returns twice in succession for the same inputs, the second result names
\* the same set of output keys and the second call generated nothing and
\* uploaded nothing.
C26_SecondCallSkips ==
    (/\ guard.prev.outcome = "returned"
     /\ guard.last.outcome = "returned"
     /\ SameCall(guard.prev, guard.last))
    => /\ Range(guard.last.keys) = Range(guard.prev.keys)
       /\ guard.last.generated = {}
       /\ guard.last.uploaded = {}

\* a worker generated and uploaded outputs, and the call repeated right after
\* it returned the same keys without uploading
C26_Witness ==
    /\ guard.prev.outcome = "returned"
    /\ guard.prev.uploaded # {}
    /\ guard.last.outcome = "returned"
    /\ SameCall(guard.prev, guard.last)
    /\ guard.last.uploaded = {}
    /\ Range(guard.last.keys) = Range(guard.prev.keys)
    /\ Cardinality(Range(guard.last.keys)) >= 2

\* C27 as stated: a thumbnail or split call that returns has generated and
\* uploaded exactly the expected outputs that were missing when it started,
\* and every expected output exists afterwards.
C27_RerunFillsMissing ==
    (guard.last.outcome = "returned" /\ guard.last.stage \in {"thumbnails", "split"})
    => /\ guard.last.generated = Range(guard.last.keys) \ guard.last.before
       /\ guard.last.uploaded = Range(guard.last.keys) \ guard.last.before
       /\ Range(guard.last.keys) \subseteq guard.objects

\* C28: an error that is not retryable is rethrown at once by
\* retryWithExponentialBackoff: it is the error thrown, no wait follows it
\* (only the earlier, retryable failures were waited for), the operation is
\* not invoked again, and when it came on attempt 1 the operation ran once.
C28_NonRetryableRethrown ==
    /\ [](/\ retry.at = "sleep"
             => isRetryableError(retry.lastError, retry.config.retryableErrors)
          /\ (/\ retry.at = "threw"
              /\ retry.invocations >= 1
              /\ ~isRetryableError(retry.lastError, retry.config.retryableErrors))
             => /\ retry.thrown = retry.lastError
                /\ retry.invocations = retry.attempt
                /\ Len(retry.waits) = retry.invocations - 1)
    /\ [][retry.at = "threw" => retry' = retry]_vars

\* ValidationError on attempt 1 of several: thrown after one invocation,
\* without a wait
C28_Witness ==
    /\ retry.at = "threw"
    /\ retry.config.maxAttempts >= 2
    /\ retry.attempt = 1
    /\ retry.invocations = 1
    /\ retry.waits = <<>>
    /\ retry.thrown.name = <<"ValidationError">>

\* C29 as stated: when every attempt failed with a retryable error the
\* operation ran exactly maxAttempts times, with a wait between consecutive
\* attempts and none after the last, and the error thrown is the last error
\* carrying a terminal tag; after a successful attempt nothing more is invoked.
C29_ExhaustionTaggedTerminal ==
    /\ (retry.at = "threw" /\ retry.invocations >= 1 /\ retry.allRetryable)
       => /\ retry.invocations = retry.config.maxAttempts
          /\ Len(retry.waits) = retry.config.maxAttempts - 1
          /\ retry.thrown.name = retry.lastError.name
          /\ retry.thrown.message = retry.lastError.message
          /\ "terminal" \in DOMAIN retry.thrown
    /\ retry.at = "returned"
       => /\ retry.invocations = retry.attempt
          /\ Len(retry.waits) = retry.invocations - 1

\* C30, amended: with a maxDelay above 0 the delay after attempt n is
\* min(baseDelay * 2^(n-1), maxDelay), non-decreasing in n and never above
\* maxDelay; with the defaults the delays are 1000, 2000, 4000, 8000, 16000;
\* with a maxDelay of 0 the delay is baseDelay * 2^(n-1), without a cap.
C30_BackoffDelays ==
    /\ \A n \in DOMAIN retry.waits :
        /\ retry.config.maxDelayMs > 0
           => /\ retry.waits[n] = Min(retry.config.baseDelayMs * 2 ^ (n - 1),
                                      retry.config.maxDelayMs)
              /\ retry.waits[n] <= retry.config.maxDelayMs
        /\ retry.config.maxDelayMs = 0
           => retry.waits[n] = retry.config.baseDelayMs * 2 ^ (n - 1)
        /\ n > 1 => retry.waits[n - 1] <= retry.waits[n]
    /\ (/\ retry.config.baseDelayMs = DEFAULT_RETRY_CONFIG.baseDelayMs
        /\ retry.config.maxDelayMs = DEFAULT_RETRY_CONFIG.maxDelayMs)
       => \A n \in DOMAIN retry.waits :
            retry.waits[n] = <<1000, 2000, 4000, 8000, 16000, 16000>>[n]

\* the default delays, waited for after attempts 1 to 5
C30_Witness ==
    /\ retry.config.baseDelayMs = 1000
    /\ retry.config.maxDelayMs = 16000
    /\ retry.waits = <<1000, 2000, 4000, 8000, 16000>>

\* C30 as stated: for every configuration the delay after attempt n is
\* min(baseDelay * 2^(n-1), maxDelay) and never exceeds maxDelay.
C30_DelayIsClampedAlways ==
    \A n \in DOMAIN retry.waits :
        /\ retry.waits[n] = Min(retry.config.baseDelayMs * 2 ^ (n - 1),
                                retry.config.maxDelayMs)
        /\ retry.waits[n] <= retry.config.maxDelayMs


\* the highest-numbered routing rule whose condition holds for the metadata
C31_LastRule(m) ==
    IF m.jobType = "MALWARE_SCAN" THEN 4
    ELSE IF m.pageCount > 100 THEN 3
    ELSE IF m.fileSizeBytes > 50 * 1024 * 1024 THEN 2
    ELSE 1

\* C31: routeTask returns FARGATE exactly when the estimate is not under 15
\* minutes, or the file is larger than 50 MB, or the page count is above 100,
\* or the job is a malware scan, and LAMBDA otherwise; the reason returned is
\* the one written by the last of the rules 1 to 4 that applied.
C31_RouteTask ==
    routing.decision # NoDecision
    => LET m == routing.metadata
           d == routing.decision
       IN  /\ d.workerType \in {"LAMBDA", "FARGATE"}
           /\ d.workerType = "FARGATE"
              <=> \/ d.estimatedDurationMs >= 15 * 60 * 1000
                  \/ m.fileSizeBytes > 50 * 1024 * 1024
                  \/ m.pageCount > 100
                  \/ m.jobType = "MALWARE_SCAN"
           /\ d.reason.rule = C31_LastRule(m)

\* a thumbnail of exactly 50 MB goes to LAMBDA by rule 1, and a PDF split of
\* 150 pages goes to FARGATE by rule 3 whatever its estimate
C31_Witness ==
    \/ /\ routing.metadata.jobType = "THUMBNAIL"
       /\ routing.metadata.fileSizeBytes = 50 * 1024 * 1024
       /\ routing.metadata.pageCount = 0
       /\ routing.decision.workerType = "LAMBDA"
       /\ routing.decision.reason.rule = 1
    \/ /\ routing.metadata.jobType = "PDF_SPLIT"
       /\ routing.metadata.pageCount = 150
       /\ routing.decision.workerType = "FARGATE"
       /\ routing.decision.estimatedDurationMs < 15 * 60 * 1000
       /\ routing.decision.reason.rule = 3

\* C32: when the timer wins, the cleanup callback runs exactly once and the
\* call rejects with TimeoutError, whether the cleanup returns or throws and
\* whether or not the operation settles afterwards; when the operation
\* settles first the cleanup never runs and the operation's own result or
\* error is what the call delivers; a delivered outcome never changes.
C32_TimeoutCleanupOnce ==
    /\ [](/\ timed.cleanups <= 1
          /\ timed.won = "timer"
             => /\ timed.cleanups = (IF timed.hasCleanup THEN 1 ELSE 0)
                /\ timed.at = "settled" => timed.outcome = "TimeoutError"
          /\ timed.won = "operation"
             => /\ timed.cleanups = 0
                /\ timed.at = "settled"
                /\ timed.outcome = timed.operation
                /\ timed.outcome \in {"result", "error"})
    /\ [][timed.outcome # "none" => timed'.outcome = timed.outcome]_vars

\* the timer won, the cleanup ran once, the call rejected with TimeoutError
\* and the operation settled only afterwards
C32_Witness ==
    /\ timed.won = "timer"
    /\ timed.hasCleanup
    /\ timed.cleanups = 1
    /\ timed.outcome = "TimeoutError"
    /\ timed.operation = "result"

\* the branches the rules select; the malware scan is unconditional
C33_Selected(rules) ==
    {"MalwareScan"}
    \cup (IF rules.ocr = "true" THEN {"OCR"} ELSE {})
    \cup (IF rules.thumbnail = "present" THEN {"Thumbnail"} ELSE {})
    \cup (IF rules.pdfSplit = "true" THEN {"PDFSplit"} ELSE {})

C39_DeletingPurged ==
    \A d \in DocIds :
        (docs[d].exists /\ docs[d].status = "DELETING" /\ ~docs[d].legalHold)
            ~> (docs[d].status = "PURGED")

\* C40: the error of a denied acquire reports a currentCount that is not
\* below the limit it reports, also when a slot of the tenant is released
\* between the failed conditional update and the read the error is built from.
C40_DeniedErrorConsistent ==
    (ret.op = "acquire" /\ ret.kind = "denied")
        => ret.currentCount >= ret.limit

====
